---- MODULE Spec2Model ----
(***************************************************************************)
(* Conversation routing and assignment engine of whatsapp-panel.           *)
(*                                                                         *)
(* The model follows src/src/chat/chat.service.ts (ChatService and the     *)
(* PresenceService appended to it), src/unnamed/part_001 (RedisStateStore),*)
(* src/src/conversation-flow/conversation-flow.service.ts, the agent query *)
(* of src/src/user/user.service.ts and ChatGateway.handleConnection.       *)
(*                                                                         *)
(* Every asynchronous operation is a process p: op[p] names the operation, *)
(* pc[p] the await it is suspended at, loc[p] its local variables.  One    *)
(* action is the code between two awaits, so the interleavings of the      *)
(* model are those of the Node.js event loop (and of several instances     *)
(* over the shared database and Redis).                                    *)
(***************************************************************************)
EXTENDS Integers, Sequences, FiniteSets, TLC

----------------------------------------------------------------------------
(* Bounds *)

\* concurrent operations (inbound messages, timer callbacks, HTTP calls)
MaxProcs == 2
\* rows the chat table can hold
MaxChats == 2
\* operations a process takes up after its first one
MaxRecycle == 2

----------------------------------------------------------------------------
(* Universe *)

Procs == 1..MaxProcs
Contacts == {1, 2}
ChatIds == 1..MaxChats
\* users of the user table; role as stored there and as carried by the JWT
Agents == {1, 2}
Admins == {3}
Users == Agents \cup Admins
Role(u) == IF u \in Admins THEN "admin" ELSE "agent"

\* assignedTo: NoAgent is SQL NULL, Undef a relation that was not loaded
NoAgent == 0
Undef == -1
NoChat == 0

AUTO_RESPONDER == "AUTO_RESPONDER"
PENDING_ASSIGNMENT == "PENDING_ASSIGNMENT"
ACTIVE == "ACTIVE"
ChatStatus == {AUTO_RESPONDER, PENDING_ASSIGNMENT, ACTIVE}

\* ConversationStep (conversation-state.enum.ts); MENU_DEUDAS stands for the
\* legacy members no handler of processConversationStep covers
START == "START"
MAIN_MENU == "MAIN_MENU"
ASK_FOR_NAME == "ASK_FOR_NAME"
DISCLAIMER == "DISCLAIMER"
PEDIR_CEDULA == "PEDIR_CEDULA"
MENU_DEUDAS == "MENU_DEUDAS"
SURVEY == "SURVEY"
ConversationStep ==
  {START, MAIN_MENU, ASK_FOR_NAME, DISCLAIMER, PEDIR_CEDULA, MENU_DEUDAS, SURVEY}

----------------------------------------------------------------------------
(* Text: a message body is a sequence of one-character strings *)

Digits == {"0", "1", "2", "3", "4", "5", "6", "7", "8", "9"}

\* String.prototype.toLowerCase on the letters the inputs use
LowerChar(ch) ==
  CASE ch = "J" -> "j"
    [] ch = "S" -> "s"
    [] ch = "M" -> "m"
    [] ch = "A" -> "a"
    [] OTHER -> ch

Lower(s) == [i \in 1..Len(s) |-> LowerChar(s[i])]

RECURSIVE TrimLeft(_)
TrimLeft(s) == IF s # <<>> /\ Head(s) = " " THEN TrimLeft(Tail(s)) ELSE s

RECURSIVE TrimRight(_)
TrimRight(s) ==
  IF s # <<>> /\ s[Len(s)] = " " THEN TrimRight(SubSeq(s, 1, Len(s) - 1)) ELSE s

\* String.prototype.trim
Trim(s) == TrimRight(TrimLeft(s))

\* String.prototype.includes
Includes(s, sub) ==
  \E i \in 0..(Len(s) - Len(sub)) : SubSeq(s, i + 1, i + Len(sub)) = sub

\* /\d/.test(text)
HasDigit(s) == \E i \in 1..Len(s) : s[i] \in Digits

----------------------------------------------------------------------------
(* Conversation engine (ConversationFlowService): the synchronous decisions *)

\* the advisor word of handleMainMenuStep, also used as a message body
W_asesor == <<"a", "s", "e", "s", "o", "r">>

\* the marker handleMainMenuStep returns for the advisor option
ACTIVATE_CHAT_WITH_ADVISOR == "__ACTIVATE_CHAT_WITH_ADVISOR__"

\* RedisStateStore.getDefaultState
DefaultState == [step |-> START, termsAccepted |-> FALSE]

exitCommands ==
  {<<"s", "a", "l", "i", "r">>, <<"c", "h", "a", "o">>, <<"a", "d", "i", "o", "s">>,
   <<"f", "i", "n">>, <<"t", "e", "r", "m", "i", "n", "a", "r">>,
   <<"c", "a", "n", "c", "e", "l", "a", "r">>, <<"0">>, <<"m", "e", "n", "u">>,
   <<"i", "n", "i", "c", "i", "o">>}

NoExit == [hit |-> FALSE, message |-> "none", newStep |-> "none", resetTerms |-> FALSE]

\* an exit rule whose general reset also serves the farewell keywords
handleExitCommands_ResetOnFarewell(lowerText, userState) ==
  IF lowerText \notin exitCommands THEN NoExit
  ELSE IF /\ userState.step = MAIN_MENU
          /\ lowerText \in {<<"m", "e", "n", "u">>, <<"i", "n", "i", "c", "i", "o">>,
                            <<"0">>}
    THEN [hit |-> TRUE, message |-> "menu", newStep |-> "none", resetTerms |-> FALSE]
  ELSE IF lowerText \in {<<"s", "a", "l", "i", "r">>, <<"c", "h", "a", "o">>,
                          <<"a", "d", "i", "o", "s">>, <<"f", "i", "n">>,
                          <<"t", "e", "r", "m", "i", "n", "a", "r">>}
    THEN [hit |-> TRUE, message |-> "survey_question", newStep |-> SURVEY,
          resetTerms |-> TRUE]
  ELSE [hit |-> TRUE, message |-> "back_to_menu", newStep |-> MAIN_MENU,
        resetTerms |-> TRUE]

\* handleExitCommands: newStep "none" is the absent newStep of the menu re-render
handleExitCommands(lowerText, userState) ==
  IF lowerText \notin exitCommands THEN NoExit
  ELSE IF /\ userState.step = MAIN_MENU
          /\ lowerText \in {<<"m", "e", "n", "u">>, <<"i", "n", "i", "c", "i", "o">>,
                            <<"0">>}
    THEN [hit |-> TRUE, message |-> "menu", newStep |-> "none", resetTerms |-> FALSE]
  ELSE IF lowerText \in {<<"s", "a", "l", "i", "r">>, <<"c", "h", "a", "o">>,
                          <<"a", "d", "i", "o", "s">>, <<"f", "i", "n">>,
                          <<"t", "e", "r", "m", "i", "n", "a", "r">>}
    THEN [hit |-> TRUE, message |-> "survey_question", newStep |-> SURVEY,
          resetTerms |-> FALSE]
  ELSE [hit |-> TRUE, message |-> "back_to_menu", newStep |-> MAIN_MENU,
        resetTerms |-> TRUE]

\* result of one step handler: the state it leaves in userState, the reply, and
\* the awaited side effects it asks for (save of the name, client lookup)
StepResult(us, resp, saveName, lookup) ==
  [us |-> us, resp |-> resp, saveName |-> saveName, lookup |-> lookup]

\* a start step that asks for the name whether or not the chat has one
handleStartStep_AlwaysAsk(userState, customerName) ==
  StepResult([userState EXCEPT !.step = ASK_FOR_NAME], "ask_name", FALSE, FALSE)

handleStartStep(userState, customerName) ==
  IF customerName # <<>>
    THEN StepResult([userState EXCEPT !.step = MAIN_MENU], "menu_intro", FALSE, FALSE)
    ELSE StepResult([userState EXCEPT !.step = ASK_FOR_NAME], "ask_name", FALSE, FALSE)

\* a name step that only looks at the length
handleNameStep_LengthOnly(userState, text) ==
  IF Len(text) < 3
    THEN StepResult(userState, "name_invalid", FALSE, FALSE)
    ELSE StepResult([userState EXCEPT !.step = MAIN_MENU], "menu_intro", TRUE, FALSE)

handleNameStep(userState, text) ==
  IF Len(text) < 3 \/ HasDigit(text)
    THEN StepResult(userState, "name_invalid", FALSE, FALSE)
    ELSE StepResult([userState EXCEPT !.step = MAIN_MENU], "menu_intro", TRUE, FALSE)

\* a main menu that shows the disclaimer on every consult request
handleMainMenuStep_AlwaysDisclaimer(userState, text, lowerText) ==
  IF \/ text = <<"1">>
     \/ Includes(lowerText, <<"c", "o", "n", "s", "u", "l", "t", "a", "r">>)
     \/ Includes(lowerText, <<"d", "e", "u", "d", "a">>)
    THEN StepResult([userState EXCEPT !.step = DISCLAIMER], "ask_terms", FALSE, FALSE)
  ELSE IF \/ text = <<"2">>
          \/ Includes(lowerText, W_asesor)
          \/ Includes(lowerText, <<"a", "g", "e", "n", "t", "e">>)
    THEN StepResult(userState, ACTIVATE_CHAT_WITH_ADVISOR, FALSE, FALSE)
  ELSE StepResult(userState, "menu_unrecognized", FALSE, FALSE)

\* a main menu that asks for the identity number without looking at the terms
handleMainMenuStep_NoTermsCheck(userState, text, lowerText) ==
  LET isConsultOption ==
        \/ text = <<"1">>
        \/ Includes(lowerText, <<"c", "o", "n", "s", "u", "l", "t", "a", "r">>)
        \/ Includes(lowerText, <<"d", "e", "u", "d", "a">>)
      isAdvisorOption ==
        \/ text = <<"2">>
        \/ Includes(lowerText, W_asesor)
        \/ Includes(lowerText, <<"a", "g", "e", "n", "t", "e">>)
  IN IF isConsultOption
       THEN StepResult([userState EXCEPT !.step = PEDIR_CEDULA], "ask_cedula",
                       FALSE, FALSE)
     ELSE IF isAdvisorOption
       THEN StepResult(userState, ACTIVATE_CHAT_WITH_ADVISOR, FALSE, FALSE)
     ELSE StepResult(userState, "menu_unrecognized", FALSE, FALSE)

handleMainMenuStep(userState, text, lowerText) ==
  LET isConsultOption ==
        \/ text = <<"1">>
        \/ Includes(lowerText, <<"c", "o", "n", "s", "u", "l", "t", "a", "r">>)
        \/ Includes(lowerText, <<"d", "e", "u", "d", "a">>)
      isAdvisorOption ==
        \/ text = <<"2">>
        \/ Includes(lowerText, W_asesor)
        \/ Includes(lowerText, <<"a", "g", "e", "n", "t", "e">>)
  IN IF isConsultOption
       THEN IF userState.termsAccepted
              THEN StepResult([userState EXCEPT !.step = PEDIR_CEDULA], "ask_cedula",
                              FALSE, FALSE)
              ELSE StepResult([userState EXCEPT !.step = DISCLAIMER], "ask_terms",
                              FALSE, FALSE)
     ELSE IF isAdvisorOption
       THEN StepResult(userState, ACTIVATE_CHAT_WITH_ADVISOR, FALSE, FALSE)
     ELSE StepResult(userState, "menu_unrecognized", FALSE, FALSE)

handleDisclaimerStep(userState, lowerText) ==
  LET acceptTerms ==
        lowerText \in {<<"s", "i">>, <<"s", "í">>, <<"a", "c", "e", "p", "t", "o">>,
                       <<"o", "k">>, <<"c", "l", "a", "r", "o">>, <<"d", "e", "l", "e">>}
      rejectTerms ==
        lowerText \in {<<"n", "o">>, <<"r", "e", "c", "h", "a", "z", "o">>,
                       <<"n", "u", "n", "c", "a">>, <<"j", "a", "m", "á", "s">>}
  IN IF acceptTerms
       THEN StepResult([userState EXCEPT !.termsAccepted = TRUE, !.step = PEDIR_CEDULA],
                       "ask_cedula", FALSE, FALSE)
     ELSE IF rejectTerms
       THEN StepResult([userState EXCEPT !.step = MAIN_MENU], "terms_rejected",
                       FALSE, FALSE)
     ELSE StepResult(userState, "terms_unclear", FALSE, FALSE)

\* an identity step that accepts four characters
handleCedulaStep_MinFour(userState, text) ==
  IF Len(Trim(text)) < 4
    THEN StepResult(userState, "cedula_short", FALSE, FALSE)
    ELSE StepResult(userState, "lookup", FALSE, TRUE)

\* handleCedulaStep up to the lookup; the step after it is CedulaAfterLookup
handleCedulaStep(userState, text) ==
  IF Len(Trim(text)) < 5
    THEN StepResult(userState, "cedula_short", FALSE, FALSE)
    ELSE StepResult(userState, "lookup", FALSE, TRUE)

\* handleCedulaStep / buildClientDebtResponse once findClientById has answered
CedulaAfterLookup(userState, found) ==
  [us |-> [userState EXCEPT !.step = MAIN_MENU],
   resp |-> IF found THEN "debt_summary" ELSE "no_record"]

processConversationStep(userState, text, lowerText, customerName) ==
  CASE userState.step = START -> handleStartStep(userState, customerName)
    [] userState.step = ASK_FOR_NAME -> handleNameStep(userState, text)
    [] userState.step = MAIN_MENU -> handleMainMenuStep(userState, text, lowerText)
    [] userState.step = DISCLAIMER -> handleDisclaimerStep(userState, lowerText)
    [] userState.step = PEDIR_CEDULA -> handleCedulaStep(userState, text)
    [] OTHER -> StepResult([userState EXCEPT !.step = MAIN_MENU], "confused", FALSE, FALSE)

\* handleSurvey line 285: comment stays null on every branch that sets a rating
NoComment == <<>>

\* a survey that only understands the numbers
SurveyRatingOf_NumbersOnly(text) ==
  LET choice == Lower(Trim(text))
  IN IF Includes(choice, <<"1">>) THEN "MALA"
     ELSE IF Includes(choice, <<"2">>) THEN "REGULAR"
     ELSE IF Includes(choice, <<"3">>) THEN "EXCELENTE"
     ELSE "none"

\* handleSurvey: the rating parsed from the answer, "none" when only a comment
SurveyRatingOf(text) ==
  LET choice == Lower(Trim(text))
  IN IF Includes(choice, <<"1">>) \/ Includes(choice, <<"m", "a", "l", "a">>) THEN "MALA"
     ELSE IF \/ Includes(choice, <<"2">>)
             \/ Includes(choice, <<"r", "e", "g", "u", "l", "a", "r">>) THEN "REGULAR"
     ELSE IF \/ Includes(choice, <<"3">>)
             \/ Includes(choice, <<"e", "x", "c", "e", "l", "e", "n", "t", "e">>)
       THEN "EXCELENTE"
     ELSE "none"

----------------------------------------------------------------------------
(* State *)

VARIABLES
  chats,        \* chat table: ChatIds -> row; contact = 0 when the row does not exist
  messages,     \* message table: per chat, how many records of each kind
  surveys,      \* survey_response table: set of [chat, rating, comment]
  users,        \* user table: the ids whose row is not soft-deleted
  lock,         \* Redis keys chat:processing:<contact>: 0 absent, else the acquirer
  dialog,       \* Redis keys conversation_state:<contact>
  queue,        \* Redis list waiting_chats_queue, index 1 is the left end
  presence,     \* PresenceService.agentSocketMap: the connected users
  isReady,      \* WhatsappService.isReady
  wa,           \* WhatsappService: reconnectAttempts and the reconnect timer
  arTimer,      \* ChatService.autoResponderTimeouts and the timers it started
  agTimer,      \* ChatService.agentResponseTimeouts and the timers it started
  op,           \* per process: the operation it runs
  pc,           \* per process: the await it is suspended at
  loc,          \* per process: local variables
  hist          \* history of the wait queue: the ids added and the ids returned

dbVars == <<chats, messages, surveys, users>>
redisVars == <<lock, dialog, queue>>
localVars == <<presence, isReady, wa, arTimer, agTimer>>
procVars == <<op, pc, loc>>
vars == <<chats, messages, surveys, users, lock, dialog, queue, presence,
          isReady, wa,
          arTimer, agTimer, op, pc, loc, hist>>

MsgKinds ==
  {"customer", "system", "reply", "handoff", "apology", "survey", "expired",
   "farewell", "agent"}

NoRow == [contact |-> 0, status |-> AUTO_RESPONDER, agent |-> NoAgent, name |-> <<>>]
NoLocalChat ==
  [id |-> NoChat, contact |-> 0, status |-> AUTO_RESPONDER, agent |-> Undef,
   name |-> <<>>]
AbsentState == [present |-> FALSE, step |-> START, termsAccepted |-> FALSE]

\* the value stored under conversation_state:<contact> for a UserState
Stored(us) == [present |-> TRUE, step |-> us.step, termsAccepted |-> us.termsAccepted]

InitLoc ==
  [contact |-> 0, text |-> <<>>, hasMedia |-> FALSE, chat |-> NoLocalChat,
   achat |-> NoLocalChat, fresh |-> NoLocalChat, us |-> DefaultState,
   loaded |-> "none", resp |-> "none", region |-> "none", avail |-> {}, target |-> NoAgent,
   chatId |-> NoChat, isAuto |-> FALSE, exclude |-> NoAgent, sendSurvey |-> FALSE, failed |-> FALSE,
   sawAgent |-> FALSE, lookups |-> 0]

----------------------------------------------------------------------------
(* Repository and store primitives *)

Exists(id) == chats[id].contact # 0

\* rows findOne({ where: { contactNumber } }) can return
RowsOf(c) == {id \in ChatIds : chats[id].contact = c}

FreeIds == {id \in ChatIds : ~Exists(id)}

\* @PrimaryGeneratedColumn: the next id of the sequence
NewId == CHOOSE id \in FreeIds : \A other \in FreeIds : id <= other

\* the entity findOne builds from row id; withRelations loads assignedTo
Loaded(id, withRelations) ==
  [id |-> id, contact |-> chats[id].contact, status |-> chats[id].status,
   agent |-> IF withRelations THEN chats[id].agent ELSE Undef,
   name |-> chats[id].name]

\* chatRepo.save(entity): an insert for an entity without id, else an update of
\* the columns the entity defines (a relation that was not loaded is left alone)
SavedRows(entity) ==
  IF entity.id = NoChat
    THEN [chats EXCEPT ![NewId] =
            [contact |-> entity.contact, status |-> entity.status,
             agent |-> IF entity.agent = Undef THEN NoAgent ELSE entity.agent,
             name |-> entity.name]]
    ELSE [chats EXCEPT ![entity.id] =
            [contact |-> entity.contact, status |-> entity.status,
             agent |-> IF entity.agent = Undef THEN @.agent ELSE entity.agent,
             name |-> entity.name]]

\* the entity after save: an insert fills in the generated id
SavedEntity(entity) ==
  IF entity.id = NoChat THEN [entity EXCEPT !.id = NewId] ELSE entity

\* messageRepo.save of one record of the given kind
WithMessage(ms, id, kind) == [ms EXCEPT ![id][kind] = @ + 1]

\* String(chatId)
RECURSIVE StringOf(_)
StringOf(n) ==
  LET d == <<"0", "1", "2", "3", "4", "5", "6", "7", "8", "9">>[(n % 10) + 1]
  IN IF n < 10 THEN <<d>> ELSE Append(StringOf(n \div 10), d)

DigitValue(ch) == CHOOSE v \in 0..9 : StringOf(v) = <<ch>>

\* parseInt(s, 10) of a string of digits
RECURSIVE ParseInt(_)
ParseInt(s) ==
  IF Len(s) = 1 THEN DigitValue(s[1])
  ELSE 10 * ParseInt(SubSeq(s, 1, Len(s) - 1)) + DigitValue(s[Len(s)])

\* RPUSH key value: with RPOP the list is a stack
LPush_Right(list, value) == Append(list, value)

\* LPUSH key value
LPush(list, value) == <<value>> \o list

\* RPOP key: the list that remains
RPopRest(list) == SubSeq(list, 1, Len(list) - 1)

\* LINDEX key 0: the value pushed last
RPopValue_Newest(list) == list[1]

\* RPOP key: the value returned
RPopValue(list) == list[Len(list)]

\* number of ACTIVE chats joined to user u (leftJoin chat.status = ACTIVE)
ActiveCount(u) ==
  Cardinality({id \in ChatIds : Exists(id) /\ chats[id].status = ACTIVE
                                 /\ chats[id].agent = u})

\* the query without its excludeAgentId condition
findAgentWithFewerChats_NoExclude(connectedAgentIds, excludeAgentId) ==
  LET cand == {u \in users : Role(u) = "agent" /\ u \in connectedAgentIds}
  IN {u \in cand : \A v \in cand : ActiveCount(u) <= ActiveCount(v)}

\* UserService.findAgentWithFewerChats: the rows the query can return first
\* (ORDER BY COUNT(chat.id) ASC LIMIT 1; ties are in no defined order); the
\* query, like findById, does not see a soft-deleted row
findAgentWithFewerChats(connectedAgentIds, excludeAgentId) ==
  LET cand == {u \in users : /\ Role(u) = "agent"
                             /\ u \in connectedAgentIds
                             /\ (excludeAgentId # NoAgent => u # excludeAgentId)}
  IN {u \in cand : \A v \in cand : ActiveCount(u) <= ActiveCount(v)}

\* PresenceService.getConnectedAgents filtered as autoAssignChat does
AvailableAgentIds == {u \in presence : Role(u) = "agent"}

----------------------------------------------------------------------------
(* Timers *)

\* WhatsappService after construction (lines 57-59): the counter, the handle
\* the field holds ("null", "live" or, once its callback ran, "fired"), the
\* number of reconnect timers that are pending, and the invocations of
\* connectToWhatsApp and of handleLogout that are suspended at an await
NoReconnect ==
  [reconnectAttempts |-> 0, reconnectTimer |-> "null", pending |-> 0,
   connecting |-> 0, removing |-> 0]

MAX_RECONNECT_ATTEMPTS == 10

\* a scheduleReconnect whose limit is off by one
scheduleReconnect_OffByOne(w) ==
  IF w.reconnectAttempts > MAX_RECONNECT_ATTEMPTS THEN w
  ELSE [w EXCEPT !.reconnectAttempts = @ + 1,
                 !.reconnectTimer = "live",
                 !.pending = IF w.reconnectTimer = "live" THEN @ ELSE @ + 1]

\* WhatsappService.scheduleReconnect: nothing at the limit; else the timer the
\* field holds is cleared, the counter incremented and a new timer set
scheduleReconnect(w) ==
  IF w.reconnectAttempts >= MAX_RECONNECT_ATTEMPTS THEN w
  ELSE [w EXCEPT !.reconnectAttempts = @ + 1,
                 !.reconnectTimer = "live",
                 !.pending = IF w.reconnectTimer = "live" THEN @ ELSE @ + 1]

NoTimers ==
  [map |-> [id \in ChatIds |-> "none"], orphans |-> [id \in ChatIds |-> 0]]

\* startAutoResponderTimer up to the callback: the handle in the map is cleared
\* and replaced; a live timer the map does not hold (an orphan) stays live
StartedAutoResponderTimer(t, id) == [t EXCEPT !.map[id] = "live"]

\* live inactivity timers of chat id
LiveInactivityTimers(id) ==
  (IF arTimer.map[id] = "live" THEN 1 ELSE 0) + arTimer.orphans[id]

\* the response timers of one chat: the handle the map holds ("none" when the
\* map has no entry, "fired" once its callback started: the callback leaves the
\* entry), the agent it was started for, and the live timers the map lost
NoAgentTimer == [state |-> "none", agent |-> NoAgent, orphans |-> 0]

\* cancelAgentResponseTimer: clearTimeout of the handle the map holds, delete
CancelledAgentTimer(t, id) ==
  [t EXCEPT ![id] = [NoAgentTimer EXCEPT !.orphans = t[id].orphans]]

\* setTimeout and agentResponseTimeouts.set: a live handle that the set
\* overwrites stays live and out of reach
SetAgentTimer(t, id, agentId) ==
  [t EXCEPT ![id] = [state |-> "live", agent |-> agentId,
                     orphans |-> IF t[id].state = "live" THEN t[id].orphans + 1
                                 ELSE t[id].orphans]]

\* a start that does not cancel the chat's previous timer
StartedAgentTimer_NoCancel(t, id, agentId) == SetAgentTimer(t, id, agentId)

\* startAgentResponseTimer
StartedAgentTimer(t, id, agentId) ==
  SetAgentTimer(CancelledAgentTimer(t, id), id, agentId)

\* live response timers of chat id
LiveResponseTimers(id) ==
  (IF agTimer[id].state = "live" THEN 1 ELSE 0) + agTimer[id].orphans

----------------------------------------------------------------------------
(* Control flow shared by the operations *)

\* a free process takes the next operation; the processes are interchangeable,
\* so they are taken in order
Startable(p) == pc[p] = "idle" /\ \A q \in Procs : q < p => pc[q] # "idle"

\* where a process goes when its operation returns: the inbound handler runs its
\* finally block, every other operation ends
ReturnPc(p) == IF op[p] = "msg" THEN "release" ELSE "done"

\* a handler whose lock release is the last statement of its try block instead
\* of a finally block: an exception outside the inner try skips it
ThrowPc_NoFinally(p) ==
  IF op[p] = "msg" /\ loc[p].region = "inner" THEN "catch_send" ELSE "done"

\* where a process goes when an exception is raised: inside the inner try of
\* handleIncomingMessage the catch of line 168 sends the apology; anywhere else
\* in the handler the catch of line 176 logs and the finally block runs; the
\* other operations reject
ThrowPc(p) ==
  IF op[p] = "msg"
    THEN IF loc[p].region = "inner" THEN "catch_send" ELSE "release"
    ELSE "done"

\* the process state after an exception: region tells the handler's position in
\* its try blocks ("none" before the try, "try", "inner", "catch" once the inner
\* catch runs, "caught" once the outer catch has run, "catch_failed" when it
\* ran for an exception of the inner catch)
Thrown(p) ==
  /\ pc' = [pc EXCEPT ![p] = ThrowPc(p)]
  /\ loc' = [loc EXCEPT ![p].region = IF op[p] # "msg" THEN @
                                       ELSE IF @ = "inner" THEN "catch"
                                       ELSE IF @ = "catch" THEN "catch_failed"
                                       ELSE "caught",
                        ![p].failed = (op[p] # "msg")]

\* autoAssignChat lines 202-209, run to its first await: the presence read and
\* the branch on it
AutoAssignEntry(l) ==
  IF AvailableAgentIds = {}
    THEN [l EXCEPT !.avail = {}, !.chat.status = PENDING_ASSIGNMENT]
    ELSE [l EXCEPT !.avail = AvailableAgentIds, !.sawAgent = TRUE]

AutoAssignPc == IF AvailableAgentIds = {} THEN "aa_save" ELSE "aa_find"

----------------------------------------------------------------------------
(* ChatService.handleIncomingMessage *)

\* @OnEvent('whatsapp.message'): a message of contact c reaches the handler
Deliver(p, c, text, media) ==
  /\ Startable(p)
  /\ op' = [op EXCEPT ![p] = "msg"]
  /\ pc' = [pc EXCEPT ![p] = "acquire"]
  /\ loc' = [loc EXCEPT ![p] = [InitLoc EXCEPT !.contact = c, !.text = text,
                                               !.hasMedia = media]]
  /\ UNCHANGED <<dbVars, redisVars, localVars, hist>>

\* RedisStateStore.acquireLock, SET NX PX answered OK
AcquireLockOk(p) ==
  /\ op[p] = "msg" /\ pc[p] = "acquire"
  /\ lock[loc[p].contact] = 0
  /\ lock' = [lock EXCEPT ![loc[p].contact] = p]
  /\ pc' = [pc EXCEPT ![p] = "load"]
  /\ loc' = [loc EXCEPT ![p].region = "try"]
  /\ UNCHANGED <<dbVars, dialog, queue, localVars, op, hist>>

\* a handler that runs its finally block although it never acquired the lock
AcquireLockFail_Release(p) ==
  /\ op[p] = "msg" /\ pc[p] = "acquire"
  /\ lock[loc[p].contact] # 0
  /\ pc' = [pc EXCEPT ![p] = "release"]
  /\ UNCHANGED <<dbVars, redisVars, localVars, op, loc, hist>>

\* acquireLock answered false: the message is ignored (lines 104-107)
AcquireLockFail(p) ==
  /\ op[p] = "msg" /\ pc[p] = "acquire"
  /\ lock[loc[p].contact] # 0
  /\ pc' = [pc EXCEPT ![p] = "done"]
  /\ UNCHANGED <<dbVars, redisVars, localVars, op, loc, hist>>

\* lines 116-132 applied to what findOne returned
PreparedChat(c, found) ==
  IF found = NoChat
    THEN [NoLocalChat EXCEPT !.contact = c, !.agent = Undef]
    ELSE LET e == Loaded(found, TRUE)
         IN IF e.status # ACTIVE /\ e.status # PENDING_ASSIGNMENT
              THEN [e EXCEPT !.status = AUTO_RESPONDER, !.agent = NoAgent]
              ELSE e

\* lines 111-132: findOne by contact number, then the in-memory changes
LoadChat(p) ==
  /\ op[p] = "msg" /\ pc[p] = "load"
  /\ \E found \in (IF RowsOf(loc[p].contact) = {} THEN {NoChat}
                   ELSE RowsOf(loc[p].contact)) :
       loc' = [loc EXCEPT ![p].chat = PreparedChat(loc[p].contact, found),
                          ![p].loaded = IF found = NoChat THEN "none"
                                        ELSE chats[found].status]
  /\ pc' = [pc EXCEPT ![p] = "save1"]
  /\ UNCHANGED <<dbVars, redisVars, localVars, op, hist>>

\* line 134: chatRepo.save(chat)
SaveChat(p) ==
  /\ op[p] = "msg" /\ pc[p] = "save1"
  /\ loc[p].chat.id = NoChat => FreeIds # {}
  /\ chats' = SavedRows(loc[p].chat)
  /\ loc' = [loc EXCEPT ![p].chat = SavedEntity(loc[p].chat)]
  /\ pc' = [pc EXCEPT ![p] = "savemsg"]
  /\ UNCHANGED <<messages, surveys, users, redisVars, localVars, op, hist>>

\* a handler that does not look at the readiness of the connection
AfterCustomerMessagePc_NoReadyCheck(l) ==
  IF l.chat.status = ACTIVE \/ l.chat.status = PENDING_ASSIGNMENT THEN "release"
  ELSE IF l.chat.status = AUTO_RESPONDER /\ ~l.hasMedia THEN "flow_get"
  ELSE "release"

\* the branch of lines 138-153 taken once saveCustomerMessage has returned
AfterCustomerMessagePc(l) ==
  IF ~isReady THEN "nr_sysmsg"
  ELSE IF l.chat.status = ACTIVE \/ l.chat.status = PENDING_ASSIGNMENT THEN "release"
  ELSE IF l.chat.status = AUTO_RESPONDER /\ ~l.hasMedia THEN "flow_get"
  ELSE "release"

\* line 135 saveCustomerMessage (message record, then chatRepo.save(chat) again)
\* and the synchronous code up to the next await: the readiness and status
\* checks and, on the bot path, startAutoResponderTimer
SaveCustomerMessage(p) ==
  /\ op[p] = "msg" /\ pc[p] = "savemsg"
  /\ messages' = WithMessage(messages, loc[p].chat.id, "customer")
  /\ chats' = SavedRows(loc[p].chat)
  /\ pc' = [pc EXCEPT ![p] = AfterCustomerMessagePc(loc[p])]
  /\ arTimer' = IF AfterCustomerMessagePc(loc[p]) = "flow_get"
                  THEN StartedAutoResponderTimer(arTimer, loc[p].chat.id)
                  ELSE arTimer
  /\ loc' = [loc EXCEPT ![p].region =
               IF AfterCustomerMessagePc(loc[p]) = "flow_get" THEN "inner" ELSE @]
  /\ UNCHANGED <<surveys, users, redisVars, presence, isReady, wa, agTimer, op, hist>>

\* line 140: the system message of the not-ready path, then line 141
NotReadySystemMessage(p) ==
  /\ op[p] = "msg" /\ pc[p] = "nr_sysmsg"
  /\ messages' = WithMessage(messages, loc[p].chat.id, "system")
  /\ loc' = [loc EXCEPT ![p].chat.status = PENDING_ASSIGNMENT]
  /\ pc' = [pc EXCEPT ![p] = "nr_save"]
  /\ UNCHANGED <<chats, surveys, users, redisVars, localVars, op, hist>>

\* line 142: chatRepo.save(chat), then autoAssignChat up to its first await
NotReadySave(p) ==
  /\ op[p] = "msg" /\ pc[p] = "nr_save"
  /\ chats' = SavedRows(loc[p].chat)
  /\ loc' = [loc EXCEPT ![p] = AutoAssignEntry(loc[p])]
  /\ pc' = [pc EXCEPT ![p] = AutoAssignPc]
  /\ UNCHANGED <<messages, surveys, users, redisVars, localVars, op, hist>>

\* finally block, RedisStateStore.releaseLock: DEL of the key
ReleaseLock(p) ==
  /\ op[p] = "msg" /\ pc[p] = "release"
  /\ lock' = [lock EXCEPT ![loc[p].contact] = 0]
  /\ pc' = [pc EXCEPT ![p] = "done"]
  /\ UNCHANGED <<dbVars, dialog, queue, localVars, op, loc, hist>>

\* the PX time-to-live of the lock key runs out
LeaseExpire(c) ==
  /\ lock[c] # 0
  /\ lock' = [lock EXCEPT ![c] = 0]
  /\ UNCHANGED <<dbVars, dialog, queue, localVars, procVars, hist>>

----------------------------------------------------------------------------
(* ConversationFlowService.handleIncomingMessage, inside the handler *)

\* line 32, RedisStateStore.getUserState: a missing key is written with the
\* default state before it is returned
FlowGetState(p) ==
  /\ op[p] = "msg" /\ pc[p] = "flow_get"
  /\ LET d == dialog[loc[p].contact]
     IN /\ dialog' = IF d.present THEN dialog
                     ELSE [dialog EXCEPT ![loc[p].contact] = Stored(DefaultState)]
        /\ loc' = [loc EXCEPT ![p].us =
                     IF d.present
                       THEN [step |-> d.step, termsAccepted |-> d.termsAccepted]
                       ELSE DefaultState]
  /\ pc' = [pc EXCEPT ![p] = "flow_fresh"]
  /\ UNCHANGED <<dbVars, lock, queue, localVars, op, hist>>

\* what the handler does with a response text once the engine has returned
\* (lines 159-167; sendTyping is a pause without effect on the state)
AfterFlowPc(resp) == IF resp = ACTIVATE_CHAT_WITH_ADVISOR THEN "esc_save" ELSE "send_reply"

\* lines 33-61 from the read of freshChat to the next await: the exit commands,
\* the survey branch or the step handler
FlowDecision(l, fresh) ==
  LET text == Trim(l.text)
      lowerText == Lower(text)
      exit == handleExitCommands(lowerText, l.us)
      step == processConversationStep(l.us, text, lowerText, fresh.name)
  IN IF exit.hit
       THEN IF exit.newStep # "none"
              THEN [l |-> [l EXCEPT !.fresh = fresh, !.resp = exit.message,
                                    !.us = [step |-> exit.newStep,
                                            termsAccepted |->
                                              IF exit.resetTerms THEN FALSE
                                              ELSE l.us.termsAccepted]],
                    pc |-> "flow_set"]
              ELSE [l |-> [l EXCEPT !.fresh = fresh, !.resp = exit.message],
                    pc |-> AfterFlowPc(exit.message)]
     ELSE IF l.us.step = SURVEY
       THEN [l |-> [l EXCEPT !.fresh = fresh, !.resp = "survey_thanks"],
             pc |-> IF SurveyRatingOf(text) # "none" THEN "survey_save"
                    ELSE "survey_reset"]
     ELSE IF step.saveName
       THEN [l |-> [l EXCEPT !.fresh = [fresh EXCEPT !.name = text],
                             !.resp = step.resp, !.us = step.us],
             pc |-> "name_save"]
     ELSE IF step.lookup
       THEN [l |-> [l EXCEPT !.fresh = fresh, !.resp = step.resp, !.us = step.us],
             pc |-> "lookup"]
     ELSE [l |-> [l EXCEPT !.fresh = fresh, !.resp = step.resp, !.us = step.us],
           pc |-> "flow_set"]

FlowFreshChat(p) ==
  /\ op[p] = "msg" /\ pc[p] = "flow_fresh"
  /\ LET d == FlowDecision(loc[p], Loaded(loc[p].chat.id, FALSE))
     IN /\ loc' = [loc EXCEPT ![p] = d.l]
        /\ pc' = [pc EXCEPT ![p] = d.pc]
  /\ UNCHANGED <<dbVars, redisVars, localVars, op, hist>>

\* handleNameStep line 155: save of freshChat with the new name
NameSave(p) ==
  /\ op[p] = "msg" /\ pc[p] = "name_save"
  /\ chats' = SavedRows(loc[p].fresh)
  /\ pc' = [pc EXCEPT ![p] = "flow_set"]
  /\ UNCHANGED <<messages, surveys, users, redisVars, localVars, op, loc, hist>>

\* handleCedulaStep lines 208-216: findClientById answers found or not
ClientLookup(p) ==
  /\ op[p] = "msg" /\ pc[p] = "lookup"
  /\ \E found \in BOOLEAN :
       loc' = [loc EXCEPT ![p].us = CedulaAfterLookup(loc[p].us, found).us,
                          ![p].resp = CedulaAfterLookup(loc[p].us, found).resp,
                          ![p].lookups = @ + 1]
  /\ pc' = [pc EXCEPT ![p] = "flow_set"]
  /\ UNCHANGED <<dbVars, redisVars, localVars, op, hist>>

\* handleSurvey lines 297-312: the rating is stored (finalizeChat, which this
\* source does not define, is called inside the try/catch of these lines)
SurveySave(p) ==
  /\ op[p] = "msg" /\ pc[p] = "survey_save"
  /\ surveys' = surveys \cup {[chat |-> loc[p].chat.id,
                               rating |-> SurveyRatingOf(Trim(loc[p].text)),
                               comment |-> NoComment]}
  /\ pc' = [pc EXCEPT ![p] = "survey_reset"]
  /\ UNCHANGED <<chats, messages, users, redisVars, localVars, op, loc, hist>>

\* handleSurvey line 314: resetUserState
SurveyReset(p) ==
  /\ op[p] = "msg" /\ pc[p] = "survey_reset"
  /\ dialog' = [dialog EXCEPT ![loc[p].contact] = Stored(DefaultState)]
  /\ pc' = [pc EXCEPT ![p] = AfterFlowPc(loc[p].resp)]
  /\ UNCHANGED <<dbVars, lock, queue, localVars, op, loc, hist>>

\* lines 44 and 63: setUserState(contactNumber, userState)
FlowSetState(p) ==
  /\ op[p] = "msg" /\ pc[p] = "flow_set"
  /\ dialog' = [dialog EXCEPT ![loc[p].contact] = Stored(loc[p].us)]
  /\ pc' = [pc EXCEPT ![p] = AfterFlowPc(loc[p].resp)]
  /\ UNCHANGED <<dbVars, lock, queue, localVars, op, loc, hist>>

\* lines 164-166: sendBotMessage(chat, responseText); sendMessage throws when
\* the collaborator is not ready
SendReply(p) ==
  /\ op[p] = "msg" /\ pc[p] = "send_reply"
  /\ IF isReady
       THEN /\ messages' = WithMessage(messages, loc[p].chat.id, "reply")
            /\ pc' = [pc EXCEPT ![p] = ReturnPc(p)]
            /\ loc' = loc
       ELSE /\ Thrown(p)
            /\ messages' = messages
  /\ UNCHANGED <<chats, surveys, users, redisVars, localVars, op, hist>>

\* lines 169-171: the apology of the inner catch
CatchSend(p) ==
  /\ op[p] = "msg" /\ pc[p] = "catch_send"
  /\ IF isReady
       THEN /\ messages' = WithMessage(messages, loc[p].chat.id, "apology")
            /\ pc' = [pc EXCEPT ![p] = "esc_save"]
            /\ loc' = loc
       ELSE /\ Thrown(p)
            /\ messages' = messages
  /\ UNCHANGED <<chats, surveys, users, redisVars, localVars, op, hist>>

----------------------------------------------------------------------------
(* activateChatWithAdvisor and autoAssignChat *)

\* lines 189-190: status ACTIVE is written
EscalateSave(p) ==
  /\ op[p] = "msg" /\ pc[p] = "esc_save"
  /\ chats' = SavedRows([loc[p].chat EXCEPT !.status = ACTIVE])
  /\ loc' = [loc EXCEPT ![p].chat.status = ACTIVE]
  /\ pc' = [pc EXCEPT ![p] = "esc_send"]
  /\ UNCHANGED <<messages, surveys, users, redisVars, localVars, op, hist>>

\* lines 192-193: the holding message
EscalateSend(p) ==
  /\ op[p] = "msg" /\ pc[p] = "esc_send"
  /\ IF isReady
       THEN /\ messages' = WithMessage(messages, loc[p].chat.id, "handoff")
            /\ pc' = [pc EXCEPT ![p] = "esc_sysmsg"]
            /\ loc' = loc
       ELSE /\ Thrown(p)
            /\ messages' = messages
  /\ UNCHANGED <<chats, surveys, users, redisVars, localVars, op, hist>>

\* lines 195-198: the system message, then autoAssignChat up to its first await
EscalateSystemMessage(p) ==
  /\ op[p] = "msg" /\ pc[p] = "esc_sysmsg"
  /\ messages' = WithMessage(messages, loc[p].chat.id, "system")
  /\ loc' = [loc EXCEPT ![p] = AutoAssignEntry(loc[p])]
  /\ pc' = [pc EXCEPT ![p] = AutoAssignPc]
  /\ UNCHANGED <<chats, surveys, users, redisVars, localVars, op, hist>>

\* line 210: status PENDING_ASSIGNMENT is written
AutoAssignSave(p) ==
  /\ pc[p] = "aa_save"
  /\ chats' = SavedRows(loc[p].chat)
  /\ pc' = [pc EXCEPT ![p] = "aa_enqueue"]
  /\ UNCHANGED <<messages, surveys, users, redisVars, localVars, op, loc, hist>>

\* RedisStateStore.addChatToWaitingQueue
addChatToWaitingQueue(chatId) ==
  /\ queue' = LPush(queue, StringOf(chatId))
  /\ hist' = [hist EXCEPT !.added = Append(@, chatId)]

\* what RedisStateStore.getNextChatInQueue returns: NoChat is its null
NextChatInQueue == IF queue = <<>> THEN NoChat ELSE ParseInt(RPopValue(queue))

\* RedisStateStore.getNextChatInQueue
getNextChatInQueue ==
  /\ queue' = IF queue = <<>> THEN queue ELSE RPopRest(queue)
  /\ hist' = IF queue = <<>> THEN hist
             ELSE [hist EXCEPT !.returned = Append(@, NextChatInQueue)]

\* line 211
AutoAssignEnqueue(p) ==
  /\ pc[p] = "aa_enqueue"
  /\ addChatToWaitingQueue(loc[p].chat.id)
  /\ pc' = [pc EXCEPT ![p] = "aa_sysmsg"]
  /\ UNCHANGED <<dbVars, lock, dialog, localVars, op, loc>>

\* lines 212-214
AutoAssignSystemMessage(p) ==
  /\ pc[p] = "aa_sysmsg"
  /\ messages' = WithMessage(messages, loc[p].chat.id, "system")
  /\ pc' = [pc EXCEPT ![p] = ReturnPc(p)]
  /\ UNCHANGED <<chats, surveys, users, redisVars, localVars, op, loc, hist>>

\* lines 217-220: the least-loaded query, then the call of assignChat
AutoAssignFind(p) ==
  /\ pc[p] = "aa_find"
  /\ LET best == findAgentWithFewerChats(loc[p].avail, NoAgent)
     IN IF best = {}
          THEN /\ pc' = [pc EXCEPT ![p] = ReturnPc(p)]
               /\ loc' = loc
          ELSE /\ \E bestAgent \in best :
                    loc' = [loc EXCEPT ![p].target = bestAgent,
                                       ![p].chatId = loc[p].chat.id,
                                       ![p].isAuto = TRUE]
               /\ pc' = [pc EXCEPT ![p] = "as_load"]
  /\ UNCHANGED <<dbVars, redisVars, localVars, op, hist>>

----------------------------------------------------------------------------
(* ChatService.assignChat *)

\* lines 229-232
AssignLoadChat(p) ==
  /\ pc[p] = "as_load"
  /\ IF Exists(loc[p].chatId)
       THEN /\ loc' = [loc EXCEPT ![p].achat = Loaded(loc[p].chatId, FALSE)]
            /\ pc' = [pc EXCEPT ![p] = "as_agent"]
       ELSE Thrown(p)
  /\ UNCHANGED <<dbVars, redisVars, localVars, op, hist>>

\* assignChat without the presence check of lines 239-243
AssignFindAgent_NoPresenceCheck(p) ==
  /\ pc[p] = "as_agent"
  /\ IF loc[p].target \notin users
       THEN Thrown(p)
       ELSE /\ loc' = [loc EXCEPT ![p].achat.agent = loc[p].target,
                                  ![p].achat.status = ACTIVE]
            /\ pc' = [pc EXCEPT ![p] = "as_save"]
  /\ UNCHANGED <<dbVars, redisVars, localVars, op, hist>>

\* lines 234-249: findById, the presence check, the in-memory assignment
AssignFindAgent(p) ==
  /\ pc[p] = "as_agent"
  /\ IF loc[p].target \notin users
       THEN Thrown(p)
     ELSE IF loc[p].target \notin presence /\ ~loc[p].isAuto
       THEN Thrown(p)
     ELSE /\ loc' = [loc EXCEPT ![p].achat.agent = loc[p].target,
                                ![p].achat.status = ACTIVE]
          /\ pc' = [pc EXCEPT ![p] = "as_save"]
  /\ UNCHANGED <<dbVars, redisVars, localVars, op, hist>>

\* line 250
AssignSave(p) ==
  /\ pc[p] = "as_save"
  /\ chats' = SavedRows(loc[p].achat)
  /\ pc' = [pc EXCEPT ![p] = "as_finish"]
  /\ UNCHANGED <<messages, surveys, users, redisVars, localVars, op, loc, hist>>

\* lines 252-264: reload, notifications, system message, response timer
AssignFinish(p) ==
  /\ pc[p] = "as_finish"
  /\ messages' = WithMessage(messages, loc[p].chatId, "system")
  /\ agTimer' = StartedAgentTimer(agTimer, loc[p].chatId, loc[p].target)
  /\ pc' = [pc EXCEPT ![p] = ReturnPc(p)]
  /\ UNCHANGED <<chats, surveys, users, redisVars, presence, isReady, wa, arTimer, op, loc, hist>>

\* an id no user row has
NoSuchUser == Cardinality(Users) + 1

\* PATCH :id/assign: assignChat(chatId, agentIdToAssign) with isAutoAssignment
\* left at its default
StartAssign(p, id, u) ==
  /\ Startable(p)
  /\ op' = [op EXCEPT ![p] = "assign"]
  /\ pc' = [pc EXCEPT ![p] = "as_load"]
  /\ loc' = [loc EXCEPT ![p] = [InitLoc EXCEPT !.chatId = id, !.target = u]]
  /\ UNCHANGED <<dbVars, redisVars, localVars, hist>>

----------------------------------------------------------------------------
(* ChatService.reassignUnansweredChat, the callback of the response timer *)

\* the time of a live response timer runs out: the callback starts with the
\* agent the timer was started for and runs to its first await (line 411)
FireResponseTimeout(p, id) ==
  /\ Startable(p)
  /\ agTimer[id].state = "live"
  /\ agTimer' = [agTimer EXCEPT ![id].state = "fired"]
  /\ op' = [op EXCEPT ![p] = "rtimer"]
  /\ pc' = [pc EXCEPT ![p] = "rt_load"]
  /\ loc' = [loc EXCEPT ![p] = [InitLoc EXCEPT !.chatId = id,
                                               !.exclude = agTimer[id].agent]]
  /\ UNCHANGED <<dbVars, redisVars, presence, isReady, wa, arTimer, hist>>

\* a guard that does not compare the assigned agent
StillUnanswered_AnyAgent(id, unresponsiveAgentId) ==
  Exists(id) /\ chats[id].status = ACTIVE

\* line 416: the chat the callback still has to act on
StillUnanswered(id, unresponsiveAgentId) ==
  Exists(id) /\ chats[id].status = ACTIVE /\ chats[id].agent = unresponsiveAgentId

\* lines 411-427: the read of the chat answers, the guard, the presence read
ReassignLoadChat(p) ==
  /\ pc[p] = "rt_load"
  /\ IF StillUnanswered(loc[p].chatId, loc[p].exclude)
       THEN /\ loc' = [loc EXCEPT ![p].avail = AvailableAgentIds]
            /\ pc' = [pc EXCEPT ![p] = "rt_find"]
       ELSE /\ loc' = loc
            /\ pc' = [pc EXCEPT ![p] = "done"]
  /\ UNCHANGED <<dbVars, redisVars, localVars, op, hist>>

\* lines 427-436: findAgentWithFewerChats answers; assignChat(id, next, true)
\* or releaseChat(id, false), each run to its first await
ReassignFind(p) ==
  /\ pc[p] = "rt_find"
  /\ IF findAgentWithFewerChats(loc[p].avail, loc[p].exclude) # {}
       THEN /\ \E u \in findAgentWithFewerChats(loc[p].avail, loc[p].exclude) :
                 loc' = [loc EXCEPT ![p].target = u, ![p].isAuto = TRUE]
            /\ pc' = [pc EXCEPT ![p] = "as_load"]
            /\ agTimer' = agTimer
       ELSE /\ loc' = [loc EXCEPT ![p].sendSurvey = FALSE]
            /\ pc' = [pc EXCEPT ![p] = "rl_load"]
            /\ agTimer' = CancelledAgentTimer(agTimer, loc[p].chatId)
  /\ UNCHANGED <<dbVars, redisVars, presence, isReady, wa, arTimer, op, hist>>

----------------------------------------------------------------------------
(* ChatService.sendAgentMessage *)

\* POST :id/message: line 268 cancels the response timer before the first await
StartAgentMessage(p, id, u) ==
  /\ Startable(p)
  /\ agTimer' = CancelledAgentTimer(agTimer, id)
  /\ op' = [op EXCEPT ![p] = "agentmsg"]
  /\ pc' = [pc EXCEPT ![p] = "am_load"]
  /\ loc' = [loc EXCEPT ![p] = [InitLoc EXCEPT !.chatId = id, !.target = u]]
  /\ UNCHANGED <<dbVars, redisVars, presence, isReady, wa, arTimer, hist>>

\* lines 270-277: the chat must exist and be assigned to the sender
AgentMessageLoadChat(p) ==
  /\ pc[p] = "am_load"
  /\ IF Exists(loc[p].chatId) /\ chats[loc[p].chatId].agent = loc[p].target
       THEN /\ loc' = loc
            /\ pc' = [pc EXCEPT ![p] = "am_save"]
       ELSE Thrown(p)
  /\ UNCHANGED <<dbVars, redisVars, localVars, op, hist>>

\* line 291
AgentMessageSave(p) ==
  /\ pc[p] = "am_save"
  /\ messages' = WithMessage(messages, loc[p].chatId, "agent")
  /\ pc' = [pc EXCEPT ![p] = "am_send"]
  /\ UNCHANGED <<chats, surveys, users, redisVars, localVars, op, loc, hist>>

\* lines 296-302: the send; when it fails a system message is stored and the
\* error is thrown again
AgentMessageSend(p) ==
  /\ pc[p] = "am_send"
  /\ IF isReady
       THEN /\ pc' = [pc EXCEPT ![p] = "done"]
            /\ UNCHANGED <<messages, loc>>
       ELSE /\ messages' = WithMessage(messages, loc[p].chatId, "system")
            /\ Thrown(p)
  /\ UNCHANGED <<chats, surveys, users, redisVars, localVars, op, hist>>

\* the event loop takes up a further operation once one has ended
Recycle(p) ==
  /\ pc[p] = "done"
  /\ hist.recycled < MaxRecycle
  /\ op' = [op EXCEPT ![p] = "none"]
  /\ pc' = [pc EXCEPT ![p] = "idle"]
  /\ loc' = [loc EXCEPT ![p] = InitLoc]
  /\ hist' = [hist EXCEPT !.recycled = @ + 1]
  /\ UNCHANGED <<dbVars, redisVars, localVars>>

\* ChatService.onModuleDestroy (lines 79-90): clearTimeout of every handle the
\* two maps hold, then both maps are cleared; a live timer that no map holds
\* is out of its reach
OnModuleDestroy(p) ==
  /\ Startable(p)
  /\ arTimer' = [arTimer EXCEPT !.map = [id \in ChatIds |-> "none"]]
  /\ agTimer' = [id \in ChatIds |->
                  [NoAgentTimer EXCEPT !.orphans = agTimer[id].orphans]]
  /\ op' = [op EXCEPT ![p] = "destroy"]
  /\ pc' = [pc EXCEPT ![p] = "done"]
  /\ UNCHANGED <<dbVars, redisVars, presence, isReady, wa, loc, hist>>

----------------------------------------------------------------------------
(* UserService *)

\* UserService.remove (DELETE /users/:id): the row is soft-deleted; the user's
\* socket and presence entry stay
RemoveUser(u) ==
  /\ u \in users
  /\ users' = users \ {u}
  /\ UNCHANGED <<chats, messages, surveys, redisVars, localVars, procVars, hist>>

----------------------------------------------------------------------------
(* Failures of the collaborators *)

\* awaits of the handler whose rejection propagates (getUserState, the survey
\* save and the client lookup catch their own errors; releaseLock is outside)
ThrowingPcs ==
  {"load", "save1", "savemsg", "nr_sysmsg", "nr_save", "flow_fresh", "name_save",
   "survey_reset", "flow_set", "send_reply", "catch_send", "esc_save", "esc_send",
   "esc_sysmsg", "aa_save", "aa_enqueue", "aa_sysmsg", "aa_find", "as_load",
   "as_agent", "as_save", "as_finish"}

\* a transient I/O failure: the awaited call of the handler rejects
IOFailure(p) ==
  /\ op[p] = "msg" /\ pc[p] \in ThrowingPcs
  /\ Thrown(p)
  /\ UNCHANGED <<dbVars, redisVars, localVars, op, hist>>

\* WhatsappService, connection.update with connection === 'close', as the
\* chat service sees it: the flag (the reconnect bookkeeping of the same event
\* is ConnectionUpdateClose)
ConnectionClose ==
  /\ isReady
  /\ isReady' = FALSE
  /\ UNCHANGED <<dbVars, redisVars, presence, wa, arTimer, agTimer, procVars, hist>>

\* WhatsappService.handleSuccessfulConnection (connection === 'open')
ConnectionOpen ==
  /\ ~isReady
  /\ isReady' = TRUE
  /\ wa' = [wa EXCEPT !.reconnectAttempts = 0]
  /\ UNCHANGED <<dbVars, redisVars, presence, arTimer, agTimer, procVars, hist>>

----------------------------------------------------------------------------
(* WhatsappService: connecting, disconnecting and the reconnect timer *)

\* invocations suspended at an await of connectToWhatsApp or of handleLogout
MaxAwaiting == 2

\* the reconnect timer runs out: connectToWhatsApp starts and is suspended at
\* useMultiFileAuthState (lines 231-233, 106-120)
ReconnectTimerFires ==
  /\ wa.reconnectTimer = "live"
  /\ wa.connecting < MaxAwaiting
  /\ wa' = [wa EXCEPT !.reconnectTimer = "fired", !.pending = @ - 1,
                      !.connecting = @ + 1]
  /\ UNCHANGED <<dbVars, redisVars, presence, isReady, arTimer, agTimer, procVars,
                 hist>>

\* connectToWhatsApp lines 149-152: creating the socket failed
ConnectToWhatsAppFails ==
  /\ wa.connecting > 0
  /\ wa' = scheduleReconnect([wa EXCEPT !.connecting = @ - 1])
  /\ UNCHANGED <<dbVars, redisVars, presence, isReady, arTimer, agTimer, procVars,
                 hist>>

\* connectToWhatsApp lines 124-147: the socket exists and its handlers are set
ConnectToWhatsAppSocket ==
  /\ wa.connecting > 0
  /\ wa' = [wa EXCEPT !.connecting = @ - 1]
  /\ UNCHANGED <<dbVars, redisVars, presence, isReady, arTimer, agTimer, procVars,
                 hist>>

\* connection.update with connection === 'close' (lines 172-176) and
\* handleDisconnection: status 440 and every other status but loggedOut
\* schedule a reconnect; loggedOut runs handleLogout up to its fs.rm
ConnectionUpdateClose(statusCode) ==
  /\ isReady' = FALSE
  /\ IF statusCode = "loggedOut"
       THEN /\ wa.removing < MaxAwaiting
            /\ wa' = [wa EXCEPT !.removing = @ + 1]
       ELSE wa' = scheduleReconnect(wa)
  /\ UNCHANGED <<dbVars, redisVars, presence, arTimer, agTimer, procVars, hist>>

\* WhatsappService.logout (lines 98-104): sock.logout() has answered and
\* handleLogout runs up to its fs.rm
ManualLogout ==
  /\ wa.removing < MaxAwaiting
  /\ isReady' = FALSE
  /\ wa' = [wa EXCEPT !.removing = @ + 1]
  /\ UNCHANGED <<dbVars, redisVars, presence, arTimer, agTimer, procVars, hist>>

\* handleLogout lines 207-213: fs.rm answers; the counter is reset and a
\* reconnect scheduled in the same synchronous block; when fs.rm rejects the
\* catch only logs
LogoutCredentialsRemoved(ok) ==
  /\ wa.removing > 0
  /\ wa' = IF ok
             THEN scheduleReconnect([wa EXCEPT !.removing = @ - 1,
                                               !.reconnectAttempts = 0])
             ELSE [wa EXCEPT !.removing = @ - 1]
  /\ UNCHANGED <<dbVars, redisVars, presence, isReady, arTimer, agTimer, procVars,
                 hist>>

----------------------------------------------------------------------------
(* ChatService.releaseChat *)

\* PATCH :id/release (and releaseLongActiveChats with sendSurvey = false):
\* line 308 cancels the response timer before the first await
StartRelease(p, id, sendSurvey) ==
  /\ Startable(p)
  /\ op' = [op EXCEPT ![p] = "release"]
  /\ pc' = [pc EXCEPT ![p] = "rl_load"]
  /\ loc' = [loc EXCEPT ![p] = [InitLoc EXCEPT !.chatId = id,
                                               !.sendSurvey = sendSurvey]]
  /\ agTimer' = CancelledAgentTimer(agTimer, id)
  /\ UNCHANGED <<dbVars, redisVars, presence, isReady, wa, arTimer, hist>>

\* lines 310-322
ReleaseLoadChat(p) ==
  /\ pc[p] = "rl_load"
  /\ IF Exists(loc[p].chatId)
       THEN /\ loc' = [loc EXCEPT ![p].chat =
                         [Loaded(loc[p].chatId, TRUE) EXCEPT
                            !.status = AUTO_RESPONDER, !.agent = NoAgent],
                       ![p].contact = chats[loc[p].chatId].contact]
            /\ pc' = [pc EXCEPT ![p] = "rl_save"]
       ELSE Thrown(p)
  /\ UNCHANGED <<dbVars, redisVars, localVars, op, hist>>

\* line 323
ReleaseSave(p) ==
  /\ pc[p] = "rl_save"
  /\ chats' = SavedRows(loc[p].chat)
  /\ pc' = [pc EXCEPT ![p] = "rl_sysmsg"]
  /\ UNCHANGED <<messages, surveys, users, redisVars, localVars, op, loc, hist>>

\* lines 325-330: reload, notification, system message, the sendSurvey branch
ReleaseSystemMessage(p) ==
  /\ pc[p] = "rl_sysmsg"
  /\ messages' = WithMessage(messages, loc[p].chatId, "system")
  /\ pc' = [pc EXCEPT ![p] = IF loc[p].sendSurvey THEN "rl_send" ELSE ReturnPc(p)]
  /\ UNCHANGED <<chats, surveys, users, redisVars, localVars, op, loc, hist>>

\* lines 331-334 and the catch of 339: the survey prompt; a failed send is logged
ReleaseSendSurvey(p) ==
  /\ pc[p] = "rl_send"
  /\ IF isReady
       THEN /\ messages' = WithMessage(messages, loc[p].chatId, "survey")
            /\ pc' = [pc EXCEPT ![p] = "rl_get"]
       ELSE /\ messages' = messages
            /\ pc' = [pc EXCEPT ![p] = ReturnPc(p)]
  /\ UNCHANGED <<chats, surveys, users, redisVars, localVars, op, loc, hist>>

\* line 336: getUserState (a missing key is written with the default state),
\* then line 337
ReleaseGetState(p) ==
  /\ pc[p] = "rl_get"
  /\ LET d == dialog[loc[p].contact]
     IN /\ dialog' = IF d.present THEN dialog
                     ELSE [dialog EXCEPT ![loc[p].contact] = Stored(DefaultState)]
        /\ loc' = [loc EXCEPT ![p].us =
                     [step |-> SURVEY,
                      termsAccepted |-> IF d.present THEN d.termsAccepted ELSE FALSE]]
  /\ pc' = [pc EXCEPT ![p] = "rl_set"]
  /\ UNCHANGED <<dbVars, lock, queue, localVars, op, hist>>

\* line 338: setUserState with step SURVEY
ReleaseSetState(p) ==
  /\ pc[p] = "rl_set"
  /\ dialog' = [dialog EXCEPT ![loc[p].contact] = Stored(loc[p].us)]
  /\ pc' = [pc EXCEPT ![p] = ReturnPc(p)]
  /\ UNCHANGED <<dbVars, lock, queue, localVars, op, loc, hist>>

----------------------------------------------------------------------------
(* ChatService.unassignChat *)

\* PATCH :id/unassign: line 348 cancels the response timer
StartUnassign(p, id) ==
  /\ Startable(p)
  /\ op' = [op EXCEPT ![p] = "unassign"]
  /\ pc' = [pc EXCEPT ![p] = "un_load"]
  /\ loc' = [loc EXCEPT ![p] = [InitLoc EXCEPT !.chatId = id]]
  /\ agTimer' = CancelledAgentTimer(agTimer, id)
  /\ UNCHANGED <<dbVars, redisVars, presence, isReady, wa, arTimer, hist>>

\* lines 350-360
UnassignLoadChat(p) ==
  /\ pc[p] = "un_load"
  /\ IF Exists(loc[p].chatId)
       THEN /\ loc' = [loc EXCEPT ![p].chat =
                         [Loaded(loc[p].chatId, TRUE) EXCEPT
                            !.status = AUTO_RESPONDER, !.agent = NoAgent],
                       ![p].contact = chats[loc[p].chatId].contact]
            /\ pc' = [pc EXCEPT ![p] = "un_save"]
       ELSE Thrown(p)
  /\ UNCHANGED <<dbVars, redisVars, localVars, op, hist>>

\* line 361
UnassignSave(p) ==
  /\ pc[p] = "un_save"
  /\ chats' = SavedRows(loc[p].chat)
  /\ pc' = [pc EXCEPT ![p] = "un_reset"]
  /\ UNCHANGED <<messages, surveys, users, redisVars, localVars, op, loc, hist>>

\* lines 363-365: reload, then resetUserState
UnassignResetState(p) ==
  /\ pc[p] = "un_reset"
  /\ dialog' = [dialog EXCEPT ![loc[p].contact] = Stored(DefaultState)]
  /\ pc' = [pc EXCEPT ![p] = "un_sysmsg"]
  /\ UNCHANGED <<dbVars, lock, queue, localVars, op, loc, hist>>

\* lines 366-367
UnassignSystemMessage(p) ==
  /\ pc[p] = "un_sysmsg"
  /\ messages' = WithMessage(messages, loc[p].chatId, "system")
  /\ pc' = [pc EXCEPT ![p] = "un_send"]
  /\ UNCHANGED <<chats, surveys, users, redisVars, localVars, op, loc, hist>>

\* lines 369-375: the farewell; a failed send is logged
UnassignSendFarewell(p) ==
  /\ pc[p] = "un_send"
  /\ messages' = IF isReady THEN WithMessage(messages, loc[p].chatId, "farewell")
                 ELSE messages
  /\ pc' = [pc EXCEPT ![p] = ReturnPc(p)]
  /\ UNCHANGED <<chats, surveys, users, redisVars, localVars, op, loc, hist>>

----------------------------------------------------------------------------
(* The inactivity timeout callback of startAutoResponderTimer *)

\* this.autoResponderTimeouts.delete(chatId): a live timer the map held becomes
\* a live timer the map does not hold
DeletedAutoResponderEntry(t, id) ==
  [t EXCEPT !.map[id] = "none",
            !.orphans[id] = IF t.map[id] = "live" THEN @ + 1 ELSE @]

\* a live inactivity timer of chat id fires (mapped tells which one) and its
\* callback starts, line 449
FireInactivity(p, id, mapped) ==
  /\ Startable(p)
  /\ IF mapped THEN arTimer.map[id] = "live" ELSE arTimer.orphans[id] > 0
  /\ arTimer' = IF mapped THEN [arTimer EXCEPT !.map[id] = "fired"]
                ELSE [arTimer EXCEPT !.orphans[id] = @ - 1]
  /\ op' = [op EXCEPT ![p] = "inactivity"]
  /\ pc' = [pc EXCEPT ![p] = "it_load"]
  /\ loc' = [loc EXCEPT ![p] = [InitLoc EXCEPT !.chatId = id]]
  /\ UNCHANGED <<dbVars, redisVars, presence, isReady, wa, agTimer, hist>>

\* lines 450-452: findOneBy and the status check
InactivityLoadChat(p) ==
  /\ pc[p] = "it_load"
  /\ IF Exists(loc[p].chatId) /\ chats[loc[p].chatId].status = AUTO_RESPONDER
       THEN /\ loc' = [loc EXCEPT ![p].chat = Loaded(loc[p].chatId, FALSE),
                                  ![p].contact = chats[loc[p].chatId].contact]
            /\ pc' = [pc EXCEPT ![p] = "it_get"]
            /\ arTimer' = arTimer
       ELSE /\ loc' = loc
            /\ pc' = [pc EXCEPT ![p] = "done"]
            /\ arTimer' = DeletedAutoResponderEntry(arTimer, loc[p].chatId)
  /\ UNCHANGED <<dbVars, redisVars, presence, isReady, wa, agTimer, op, hist>>

\* lines 453-458: getUserState and the START check
InactivityGetState(p) ==
  /\ pc[p] = "it_get"
  /\ LET d == dialog[loc[p].contact]
         step == IF d.present THEN d.step ELSE START
     IN /\ dialog' = IF d.present THEN dialog
                     ELSE [dialog EXCEPT ![loc[p].contact] = Stored(DefaultState)]
        /\ IF step = START
             THEN /\ pc' = [pc EXCEPT ![p] = "done"]
                  /\ arTimer' = DeletedAutoResponderEntry(arTimer, loc[p].chatId)
             ELSE /\ pc' = [pc EXCEPT ![p] = "it_send"]
                  /\ arTimer' = arTimer
  /\ UNCHANGED <<dbVars, lock, queue, presence, isReady, wa, agTimer, op, loc, hist>>

\* lines 460-465 and the catch of 467: the session-expired notice
InactivitySend(p) ==
  /\ pc[p] = "it_send"
  /\ IF isReady
       THEN /\ messages' = WithMessage(messages, loc[p].chatId, "expired")
            /\ pc' = [pc EXCEPT ![p] = "it_reset"]
            /\ arTimer' = arTimer
       ELSE /\ messages' = messages
            /\ pc' = [pc EXCEPT ![p] = "done"]
            /\ arTimer' = DeletedAutoResponderEntry(arTimer, loc[p].chatId)
  /\ UNCHANGED <<chats, surveys, users, redisVars, presence, isReady, wa, agTimer, op, loc, hist>>

\* lines 466-472: resetUserState, then the map entry is deleted
InactivityReset(p) ==
  /\ pc[p] = "it_reset"
  /\ dialog' = [dialog EXCEPT ![loc[p].contact] = Stored(DefaultState)]
  /\ arTimer' = DeletedAutoResponderEntry(arTimer, loc[p].chatId)
  /\ pc' = [pc EXCEPT ![p] = "done"]
  /\ UNCHANGED <<dbVars, lock, queue, presence, isReady, wa, agTimer, op, loc, hist>>

----------------------------------------------------------------------------
(* ChatGateway.handleConnection and handleDisconnect *)

\* lines 41-48: a user connects (one socket per user in this model); an agent
\* goes on to look at the wait queue, an admin is done
Connect(p, u) ==
  /\ Startable(p)
  /\ u \notin presence
  /\ presence' = presence \cup {u}
  /\ op' = [op EXCEPT ![p] = "connect"]
  /\ pc' = [pc EXCEPT ![p] = IF Role(u) = "agent" THEN "cn_next" ELSE "done"]
  /\ loc' = [loc EXCEPT ![p] = [InitLoc EXCEPT !.target = u]]
  /\ UNCHANGED <<dbVars, redisVars, isReady, wa, arTimer, agTimer, hist>>

\* lines 49-53: getNextChatInQueue and, for a chat id, assignChat(id, userId, true)
ConnectNextChat(p) ==
  /\ pc[p] = "cn_next"
  /\ getNextChatInQueue
  /\ IF NextChatInQueue # NoChat
       THEN /\ loc' = [loc EXCEPT ![p].chatId = NextChatInQueue, ![p].isAuto = TRUE]
            /\ pc' = [pc EXCEPT ![p] = "as_load"]
       ELSE /\ loc' = loc
            /\ pc' = [pc EXCEPT ![p] = "done"]
  /\ UNCHANGED <<dbVars, lock, dialog, localVars, op>>

\* handleDisconnect: PresenceService.removeAgent
Disconnect(u) ==
  /\ u \in presence
  /\ presence' = presence \ {u}
  /\ UNCHANGED <<dbVars, redisVars, isReady, wa, arTimer, agTimer, procVars, hist>>

----------------------------------------------------------------------------
(* Direct use of the wait queue of RedisStateStore *)

\* adds made to the wait queue by direct calls
MaxQueue == 4

\* addChatToWaitingQueue(chatId) called by some instance
QueueAdd(chatId) ==
  /\ Len(hist.added) < MaxQueue
  /\ addChatToWaitingQueue(chatId)
  /\ UNCHANGED <<dbVars, lock, dialog, localVars, procVars>>

\* getNextChatInQueue() called by some instance
QueueNext ==
  /\ getNextChatInQueue
  /\ UNCHANGED <<dbVars, lock, dialog, localVars, procVars>>

----------------------------------------------------------------------------
(* Initial states and specifications *)

NoHist == [added |-> <<>>, returned |-> <<>>, recycled |-> 0]

W_Ana == <<"A", "n", "a">>

\* a contact that never wrote
SetupNew == [row |-> NoRow, dialog |-> AbsentState]

\* a contact with a chat the bot holds, at the given step
SetupBot(c, name, step, terms) ==
  [row |-> [contact |-> c, status |-> AUTO_RESPONDER, agent |-> NoAgent,
            name |-> name],
   dialog |-> Stored([step |-> step, termsAccepted |-> terms])]

\* a contact that gave its name and is at the main menu
SetupMenu(c) == SetupBot(c, W_Ana, MAIN_MENU, FALSE)

\* a contact that accepted the terms and was asked for its id
SetupCedula(c) == SetupBot(c, W_Ana, PEDIR_CEDULA, TRUE)

\* a contact that said goodbye and was asked to rate the service
SetupSurvey(c) == SetupBot(c, W_Ana, SURVEY, FALSE)

\* a contact that asked for an advisor and whose chat agent a holds
SetupActive(c, a) ==
  [row |-> [contact |-> c, status |-> ACTIVE, agent |-> a, name |-> W_Ana],
   dialog |-> Stored([step |-> MAIN_MENU, termsAccepted |-> FALSE])]

\* a contact that asked for an advisor while none was connected
SetupPending(c) ==
  [row |-> [contact |-> c, status |-> PENDING_ASSIGNMENT, agent |-> NoAgent,
            name |-> W_Ana],
   dialog |-> Stored([step |-> MAIN_MENU, termsAccepted |-> FALSE])]

\* the wait queue after addChatToWaitingQueue of the given ids in turn
RECURSIVE QueueOf(_)
QueueOf(added) ==
  IF added = <<>> THEN <<>>
  ELSE LPush(QueueOf(SubSeq(added, 1, Len(added) - 1)), StringOf(added[Len(added)]))

\* the state with the given chats, connected users and readiness, the ids the
\* wait queue was given, the chats whose inactivity timer runs and the
\* response timers; contact c has chat c when it has one
InitFull(setup, connected, ready, added, idle, agt) ==
  /\ chats = [id \in ChatIds |-> IF id \in Contacts THEN setup[id].row ELSE NoRow]
  /\ messages = [id \in ChatIds |-> [k \in MsgKinds |-> 0]]
  /\ surveys = {}
  /\ users = Users
  /\ lock = [c \in Contacts |-> 0]
  /\ dialog = [c \in Contacts |-> setup[c].dialog]
  /\ queue = QueueOf(added)
  /\ presence = connected
  /\ isReady = ready
  /\ wa = NoReconnect
  /\ arTimer = [NoTimers EXCEPT
                  !.map = [id \in ChatIds |-> IF id \in idle THEN "live" ELSE "none"]]
  /\ agTimer = agt
  /\ op = [p \in Procs |-> "none"]
  /\ pc = [p \in Procs |-> "idle"]
  /\ loc = [p \in Procs |-> InitLoc]
  /\ hist = [NoHist EXCEPT !.added = added]

\* the state after construction (no timer runs) with a wait queue
InitQueued(setup, connected, ready, added) ==
  InitFull(setup, connected, ready, added, {}, [id \in ChatIds |-> NoAgentTimer])

\* the same with an empty wait queue
InitWith(setup, connected, ready) == InitQueued(setup, connected, ready, <<>>)

Two(s1, s2) == [c \in Contacts |-> IF c = 1 THEN s1 ELSE s2]

\* Spec: inbound messages of one contact while the messaging connection
\* opens and closes
Init ==
  \E s1 \in {SetupNew, SetupMenu(1), SetupCedula(1), SetupSurvey(1),
              SetupActive(1, 1)},
     connected \in {{}, {1, 2}}, ready \in BOOLEAN :
    InitWith(Two(s1, SetupNew), connected, ready)

Next ==
  \/ \E p \in Procs, text \in {<<"2">>, W_asesor} :
       Deliver(p, 1, text, FALSE)
  \/ \E p \in Procs :
       \/ AcquireLockOk(p)
       \/ AcquireLockFail(p)
       \/ LoadChat(p)
       \/ SaveChat(p)
       \/ SaveCustomerMessage(p)
       \/ NotReadySystemMessage(p)
       \/ NotReadySave(p)
       \/ FlowGetState(p)
       \/ FlowFreshChat(p)
       \/ NameSave(p)
       \/ ClientLookup(p)
       \/ SurveySave(p)
       \/ SurveyReset(p)
       \/ FlowSetState(p)
       \/ SendReply(p)
       \/ CatchSend(p)
       \/ EscalateSave(p)
       \/ EscalateSend(p)
       \/ EscalateSystemMessage(p)
       \/ AutoAssignSave(p)
       \/ AutoAssignEnqueue(p)
       \/ AutoAssignSystemMessage(p)
       \/ AutoAssignFind(p)
       \/ AssignLoadChat(p)
       \/ AssignFindAgent(p)
       \/ AssignSave(p)
       \/ AssignFinish(p)
       \/ ReleaseLock(p)
  \/ ConnectionClose
  \/ ConnectionOpen

Spec == Init /\ [][Next]_vars

\* SpecLease: inbound messages of one contact whose handlers outlive the lease
InitLease ==
  \E s1 \in {SetupMenu(1), SetupNew} : InitWith(Two(s1, SetupNew), {}, TRUE)

NextLease ==
  \/ \E p \in Procs, text \in {<<"2">>, <<"h", "o", "l", "a">>} :
       Deliver(p, 1, text, FALSE)
  \/ \E p \in Procs :
       \/ AcquireLockOk(p)
       \/ AcquireLockFail(p)
       \/ LoadChat(p)
       \/ SaveChat(p)
       \/ SaveCustomerMessage(p)
       \/ FlowGetState(p)
       \/ FlowFreshChat(p)
       \/ FlowSetState(p)
       \/ SendReply(p)
       \/ EscalateSave(p)
       \/ EscalateSend(p)
       \/ EscalateSystemMessage(p)
       \/ AutoAssignSave(p)
       \/ AutoAssignEnqueue(p)
       \/ AutoAssignSystemMessage(p)
       \/ ReleaseLock(p)
  \/ \E c \in Contacts : LeaseExpire(c)

SpecLease == InitLease /\ [][NextLease]_vars

\* SpecFail: inbound messages of one contact whose awaited calls may reject
InitFail ==
  \E s1 \in {SetupMenu(1), SetupActive(1, 1)}, connected \in {{}, {1}},
     ready \in BOOLEAN :
    InitWith(Two(s1, SetupNew), connected, ready)

NextFail ==
  \/ \E p \in Procs, text \in {<<"2">>, <<"h", "o", "l", "a">>} :
       Deliver(p, 1, text, FALSE)
  \/ \E p \in Procs :
       \/ AcquireLockOk(p)
       \/ AcquireLockFail(p)
       \/ LoadChat(p)
       \/ SaveChat(p)
       \/ SaveCustomerMessage(p)
       \/ NotReadySystemMessage(p)
       \/ NotReadySave(p)
       \/ FlowGetState(p)
       \/ FlowFreshChat(p)
       \/ FlowSetState(p)
       \/ SendReply(p)
       \/ CatchSend(p)
       \/ EscalateSave(p)
       \/ EscalateSend(p)
       \/ EscalateSystemMessage(p)
       \/ AutoAssignSave(p)
       \/ AutoAssignEnqueue(p)
       \/ AutoAssignSystemMessage(p)
       \/ AutoAssignFind(p)
       \/ AssignLoadChat(p)
       \/ AssignFindAgent(p)
       \/ AssignSave(p)
       \/ AssignFinish(p)
       \/ ReleaseLock(p)
       \/ IOFailure(p)

SpecFail == InitFail /\ [][NextFail]_vars

\* SpecAssign: two contacts ask for an advisor while two agents are connected
InitAssign == InitWith(Two(SetupMenu(1), SetupMenu(2)), {1, 2, 3}, TRUE)

NextAssign ==
  \/ \E p \in Procs, c \in Contacts : Deliver(p, c, <<"2">>, FALSE)
  \/ \E p \in Procs :
       \/ AcquireLockOk(p)
       \/ AcquireLockFail(p)
       \/ LoadChat(p)
       \/ SaveChat(p)
       \/ SaveCustomerMessage(p)
       \/ FlowGetState(p)
       \/ FlowFreshChat(p)
       \/ FlowSetState(p)
       \/ EscalateSave(p)
       \/ EscalateSend(p)
       \/ EscalateSystemMessage(p)
       \/ AutoAssignFind(p)
       \/ AssignLoadChat(p)
       \/ AssignFindAgent(p)
       \/ AssignSave(p)
       \/ AssignFinish(p)
       \/ ReleaseLock(p)

SpecAssign == InitAssign /\ [][NextAssign]_vars

\* SpecState: the writers of a contact's dialogue state: the handler, the
\* inactivity callback, a release and an unassign of the chat
InitState ==
  \E s1 \in {SetupMenu(1), SetupActive(1, 1)} :
    InitWith(Two(s1, SetupNew), {}, TRUE)

NextState ==
  \/ \E p \in Procs : Deliver(p, 1, <<"h", "o", "l", "a">>, FALSE)
  \/ \E p \in Procs : StartRelease(p, 1, TRUE)
  \/ \E p \in Procs : StartUnassign(p, 1)
  \/ \E p \in Procs, mapped \in BOOLEAN : FireInactivity(p, 1, mapped)
  \/ \E p \in Procs :
       \/ AcquireLockOk(p)
       \/ AcquireLockFail(p)
       \/ LoadChat(p)
       \/ SaveChat(p)
       \/ SaveCustomerMessage(p)
       \/ FlowGetState(p)
       \/ FlowFreshChat(p)
       \/ FlowSetState(p)
       \/ SendReply(p)
       \/ ReleaseLock(p)
       \/ ReleaseLoadChat(p)
       \/ ReleaseSave(p)
       \/ ReleaseSystemMessage(p)
       \/ ReleaseSendSurvey(p)
       \/ ReleaseGetState(p)
       \/ ReleaseSetState(p)
       \/ UnassignLoadChat(p)
       \/ UnassignSave(p)
       \/ UnassignResetState(p)
       \/ UnassignSystemMessage(p)
       \/ UnassignSendFarewell(p)
       \/ InactivityLoadChat(p)
       \/ InactivityGetState(p)
       \/ InactivitySend(p)
       \/ InactivityReset(p)

SpecState == InitState /\ [][NextState]_vars

\* SpecQueue: instances add to and take from the wait queue directly
InitQueue == InitWith(Two(SetupNew, SetupNew), {}, TRUE)

NextQueue ==
  \/ \E chatId \in ChatIds : QueueAdd(chatId)
  \/ QueueNext

SpecQueue == InitQueue /\ [][NextQueue]_vars

\* SpecConnect: users connect and disconnect while chats wait in the queue
\* (the chats an inbound message queued while no agent was connected)
InitConnect ==
  \/ InitQueued(Two(SetupMenu(1), SetupMenu(2)), {}, TRUE, <<>>)
  \/ InitQueued(Two(SetupPending(1), SetupMenu(2)), {}, TRUE, <<1>>)
  \/ InitQueued(Two(SetupPending(1), SetupPending(2)), {}, TRUE, <<1, 2>>)
  \/ InitQueued(Two(SetupPending(1), SetupPending(2)), {}, TRUE, <<2, 1>>)

NextConnect ==
  \/ \E p \in Procs :
       \/ \E u \in Users : Connect(p, u)
       \/ ConnectNextChat(p)
       \/ AssignLoadChat(p) \/ AssignFindAgent(p) \/ AssignSave(p)
       \/ AssignFinish(p)
       \/ Recycle(p)
  \/ \E u \in Users : Disconnect(u)

SpecConnect == InitConnect /\ [][NextConnect]_vars

\* SpecTimers: the operations on a chat that start, cancel and answer its
\* response timer: manual assign, agent reply, release, unassign and the
\* timeout callback of the chat of contact 1, which the bot holds or which
\* agent 1 holds with the response timer of that assignment running
InitTimers ==
  \E connected \in {{1}, {1, 2}, {1, 3}} :
    \/ InitWith(Two(SetupMenu(1), SetupNew), connected, TRUE)
    \/ InitFull(Two(SetupActive(1, 1), SetupNew), connected, TRUE, <<>>, {},
                StartedAgentTimer([id \in ChatIds |-> NoAgentTimer], 1, 1))

NextTimers ==
  \/ \E p \in Procs :
       \/ \E id \in ChatIds, u \in Users \cup {NoSuchUser} : StartAssign(p, id, u)
       \/ \E u \in Agents : StartAgentMessage(p, 1, u)
       \/ StartRelease(p, 1, TRUE)
       \/ StartUnassign(p, 1)
       \/ FireResponseTimeout(p, 1)
       \/ AssignLoadChat(p) \/ AssignFindAgent(p) \/ AssignSave(p)
       \/ AssignFinish(p)
       \/ AgentMessageLoadChat(p) \/ AgentMessageSave(p) \/ AgentMessageSend(p)
       \/ ReleaseLoadChat(p) \/ ReleaseSave(p) \/ ReleaseSystemMessage(p)
       \/ ReleaseSendSurvey(p) \/ ReleaseGetState(p) \/ ReleaseSetState(p)
       \/ UnassignLoadChat(p) \/ UnassignSave(p) \/ UnassignResetState(p)
       \/ UnassignSystemMessage(p) \/ UnassignSendFarewell(p)
       \/ ReassignLoadChat(p) \/ ReassignFind(p)

SpecTimers == InitTimers /\ [][NextTimers]_vars

\* a contact whose chat the bot holds and that was not greeted yet
SetupStart(c) == SetupBot(c, <<>>, START, FALSE)

\* SpecExpiry: the inactivity timers that the last inbound message of each
\* contact started run out while the messaging connection opens and closes;
\* the chats are with the bot, waiting or with an agent
InitExpiry ==
  \E s1 \in {SetupStart(1), SetupMenu(1), SetupCedula(1), SetupPending(1),
              SetupActive(1, 1)},
     s2 \in {SetupStart(2), SetupMenu(2), SetupActive(2, 1)},
     ready \in BOOLEAN :
    InitFull(Two(s1, s2), {}, ready,
             IF s1 = SetupPending(1) THEN <<1>> ELSE <<>>, {1, 2},
             [id \in ChatIds |-> NoAgentTimer])

NextExpiry ==
  \/ \E p \in Procs, id \in ChatIds : FireInactivity(p, id, TRUE)
  \/ \E p \in Procs :
       \/ InactivityLoadChat(p)
       \/ InactivityGetState(p)
       \/ InactivitySend(p)
       \/ InactivityReset(p)
  \/ ConnectionClose
  \/ ConnectionOpen

SpecExpiry == InitExpiry /\ [][NextExpiry]_vars

\* SpecIdle: inbound messages of a contact at the main menu and the inactivity
\* callbacks of its chat, whose timer the last message started
InitIdle ==
  InitFull(Two(SetupMenu(1), SetupNew), {}, TRUE, <<>>, {1},
           [id \in ChatIds |-> NoAgentTimer])

NextIdle ==
  \/ \E p \in Procs : Deliver(p, 1, <<"h", "o", "l", "a">>, FALSE)
  \/ \E p \in Procs, mapped \in BOOLEAN : FireInactivity(p, 1, mapped)
  \/ \E p \in Procs :
       \/ AcquireLockOk(p)
       \/ AcquireLockFail(p)
       \/ LoadChat(p)
       \/ SaveChat(p)
       \/ SaveCustomerMessage(p)
       \/ FlowGetState(p)
       \/ FlowFreshChat(p)
       \/ FlowSetState(p)
       \/ SendReply(p)
       \/ ReleaseLock(p)
       \/ InactivityLoadChat(p)
       \/ InactivityGetState(p)
       \/ InactivitySend(p)
       \/ InactivityReset(p)
       \/ Recycle(p)

SpecIdle == InitIdle /\ [][NextIdle]_vars

\* SpecShutdown: the same traffic on chat 1 while chat 2 is with agent 1 and
\* its response timer runs, and the module is destroyed at any moment
InitShutdown ==
  InitFull(Two(SetupMenu(1), SetupActive(2, 1)), {}, TRUE, <<>>, {1},
           [id \in ChatIds |->
              IF id = 2 THEN [state |-> "live", agent |-> 1, orphans |-> 0]
              ELSE NoAgentTimer])

NextShutdown ==
  \/ NextIdle
  \/ \E p \in Procs : OnModuleDestroy(p)

SpecShutdown == InitShutdown /\ [][NextShutdown]_vars

\* SpecAutoAssign: contact 1 asks for an advisor from the main menu, with any
\* set of connected agents and the messaging connection ready or not, while an
\* administrator deactivates agents
InitAutoAssign ==
  \E connected \in SUBSET Agents, ready \in BOOLEAN :
    InitWith(Two(SetupMenu(1), SetupNew), connected, ready)

NextAutoAssign ==
  \/ \E p \in Procs :
       \/ Deliver(p, 1, <<"2">>, FALSE)
       \/ AcquireLockOk(p)
       \/ AcquireLockFail(p)
       \/ LoadChat(p)
       \/ SaveChat(p)
       \/ SaveCustomerMessage(p)
       \/ NotReadySystemMessage(p)
       \/ NotReadySave(p)
       \/ FlowGetState(p)
       \/ FlowFreshChat(p)
       \/ FlowSetState(p)
       \/ EscalateSave(p)
       \/ EscalateSend(p)
       \/ EscalateSystemMessage(p)
       \/ AutoAssignSave(p)
       \/ AutoAssignEnqueue(p)
       \/ AutoAssignSystemMessage(p)
       \/ AutoAssignFind(p)
       \/ AssignLoadChat(p)
       \/ AssignFindAgent(p)
       \/ AssignSave(p)
       \/ AssignFinish(p)
       \/ ReleaseLock(p)
  \/ \E u \in Agents : RemoveUser(u)

SpecAutoAssign == InitAutoAssign /\ [][NextAutoAssign]_vars

\* SpecDequeue: the chat of contact 1 waits in the queue (it was queued while
\* only the administrator was connected); the administrator assigns it by hand
\* or releases it, and agents connect
InitDequeue ==
  \/ InitQueued(Two(SetupPending(1), SetupNew), {3}, TRUE, <<1>>)
  \/ InitQueued(Two(SetupPending(1), SetupPending(2)), {3}, TRUE, <<1, 2>>)

NextDequeue ==
  \/ \E p \in Procs :
       \/ \E u \in Agents : Connect(p, u)
       \/ \E u \in Users : StartAssign(p, 1, u)
       \/ StartRelease(p, 1, FALSE)
       \/ ConnectNextChat(p)
       \/ AssignLoadChat(p)
       \/ AssignFindAgent(p)
       \/ AssignSave(p)
       \/ AssignFinish(p)
       \/ ReleaseLoadChat(p)
       \/ ReleaseSave(p)
       \/ ReleaseSystemMessage(p)

SpecDequeue == InitDequeue /\ [][NextDequeue]_vars

\* SpecTerms: a contact at the main menu, at the terms question, at the
\* identity question or at the survey answers the questions, sends exit
\* keywords or stays silent until the inactivity timer of its last message
\* fires, and the chat is released with or without the survey
InitTerms ==
  \E s1 \in {SetupMenu(1), SetupBot(1, W_Ana, MAIN_MENU, TRUE),
              SetupBot(1, W_Ana, DISCLAIMER, FALSE), SetupCedula(1),
              SetupBot(1, W_Ana, SURVEY, TRUE)} :
    InitFull(Two(s1, SetupNew), {}, TRUE, <<>>, {1},
             [id \in ChatIds |-> NoAgentTimer])

NextTerms ==
  \/ \E p \in Procs,
        text \in {<<"1">>, <<"s", "i">>, <<"n", "o">>, <<"m", "e", "n", "u">>,
                  <<"s", "a", "l", "i", "r">>, <<"1", "2", "3", "4", "5">>} :
       Deliver(p, 1, text, FALSE)
  \/ \E p \in Procs, mapped \in BOOLEAN : FireInactivity(p, 1, mapped)
  \/ \E p \in Procs, sendSurvey \in BOOLEAN : StartRelease(p, 1, sendSurvey)
  \/ \E p \in Procs :
       \/ AcquireLockOk(p)
       \/ AcquireLockFail(p)
       \/ LoadChat(p)
       \/ SaveChat(p)
       \/ SaveCustomerMessage(p)
       \/ FlowGetState(p)
       \/ FlowFreshChat(p)
       \/ ClientLookup(p)
       \/ SurveySave(p)
       \/ SurveyReset(p)
       \/ FlowSetState(p)
       \/ SendReply(p)
       \/ ReleaseLock(p)
       \/ InactivityLoadChat(p)
       \/ InactivityGetState(p)
       \/ InactivitySend(p)
       \/ InactivityReset(p)
       \/ ReleaseLoadChat(p)
       \/ ReleaseSave(p)
       \/ ReleaseSystemMessage(p)
       \/ ReleaseSendSurvey(p)
       \/ ReleaseGetState(p)
       \/ ReleaseSetState(p)

SpecTerms == InitTerms /\ [][NextTerms]_vars

\* SpecWait: chats wait in the queue while agents connect and disconnect. The
\* steps of a running handleConnection are taken eventually (every await of
\* the handler answers); nothing obliges an agent to connect or to disconnect
InitWait ==
  \/ InitQueued(Two(SetupPending(1), SetupMenu(2)), {}, TRUE, <<1>>)
  \/ InitQueued(Two(SetupPending(1), SetupPending(2)), {}, TRUE, <<1, 2>>)
  \/ InitQueued(Two(SetupPending(1), SetupPending(2)), {}, TRUE, <<2, 1>>)

ConnectionStep ==
  \E p \in Procs :
    \/ ConnectNextChat(p)
    \/ AssignLoadChat(p)
    \/ AssignFindAgent(p)
    \/ AssignSave(p)
    \/ AssignFinish(p)

NextWait ==
  \/ \E p \in Procs, u \in Agents : Connect(p, u)
  \/ ConnectionStep
  \/ \E u \in Agents : Disconnect(u)

SpecWait == InitWait /\ [][NextWait]_vars /\ WF_vars(ConnectionStep)

\* SpecReconnect: the messaging service from its start (onModuleInit has
\* called connectToWhatsApp): connection attempts fail or succeed, the
\* connection closes with any status, the reconnect timer fires and the
\* session is logged out
InitReconnect ==
  /\ chats = [id \in ChatIds |-> NoRow]
  /\ messages = [id \in ChatIds |-> [k \in MsgKinds |-> 0]]
  /\ surveys = {}
  /\ users = Users
  /\ lock = [c \in Contacts |-> 0]
  /\ dialog = [c \in Contacts |-> AbsentState]
  /\ queue = <<>>
  /\ presence = {}
  /\ isReady = FALSE
  /\ wa = [NoReconnect EXCEPT !.connecting = 1]
  /\ arTimer = NoTimers
  /\ agTimer = [id \in ChatIds |-> NoAgentTimer]
  /\ op = [p \in Procs |-> "none"]
  /\ pc = [p \in Procs |-> "idle"]
  /\ loc = [p \in Procs |-> InitLoc]
  /\ hist = NoHist

NextReconnect ==
  \/ ReconnectTimerFires
  \/ ConnectToWhatsAppFails
  \/ ConnectToWhatsAppSocket
  \/ ConnectionOpen
  \/ \E statusCode \in {"440", "loggedOut", "other"} : ConnectionUpdateClose(statusCode)
  \/ ManualLogout
  \/ \E ok \in BOOLEAN : LogoutCredentialsRemoved(ok)

SpecReconnect == InitReconnect /\ [][NextReconnect]_vars

\* SpecReply: agent 1 holds the chat of contact 1 and the response timer that
\* the assignment started runs; the timer can fire, the agent can reply and
\* the chat can be released
InitReply ==
  \E connected \in {{1}, {1, 2}}, ready \in BOOLEAN :
    InitFull(Two(SetupActive(1, 1), SetupNew), connected, ready, <<>>, {},
             StartedAgentTimer([id \in ChatIds |-> NoAgentTimer], 1, 1))

NextReply ==
  \/ \E p \in Procs :
       \/ FireResponseTimeout(p, 1)
       \/ StartAgentMessage(p, 1, 1)
       \/ StartRelease(p, 1, TRUE)
       \/ ReassignLoadChat(p) \/ ReassignFind(p)
       \/ AssignLoadChat(p) \/ AssignFindAgent(p) \/ AssignSave(p)
       \/ AssignFinish(p)
       \/ AgentMessageLoadChat(p) \/ AgentMessageSave(p) \/ AgentMessageSend(p)
       \/ ReleaseLoadChat(p) \/ ReleaseSave(p) \/ ReleaseSystemMessage(p)
       \/ ReleaseSendSurvey(p) \/ ReleaseGetState(p) \/ ReleaseSetState(p)

SpecReply == InitReply /\ [][NextReply]_vars

\* SpecExit: a contact at any step of the dialogue sends an exit keyword, as
\* listed or with capitals and blanks around it
InitExit ==
  \E s1 \in {SetupStart(1), SetupBot(1, <<>>, ASK_FOR_NAME, FALSE), SetupMenu(1),
              SetupBot(1, W_Ana, MAIN_MENU, TRUE),
              SetupBot(1, W_Ana, DISCLAIMER, FALSE), SetupCedula(1),
              SetupSurvey(1), SetupBot(1, W_Ana, SURVEY, TRUE)} :
    InitWith(Two(s1, SetupNew), {}, TRUE)

NextExit ==
  \/ \E p \in Procs,
        text \in exitCommands \cup {<<" ", "S", "a", "l", "i", "r">>,
                                    <<"M", "e", "n", "u", " ">>} :
       Deliver(p, 1, text, FALSE)
  \/ \E p \in Procs :
       \/ AcquireLockOk(p)
       \/ AcquireLockFail(p)
       \/ LoadChat(p)
       \/ SaveChat(p)
       \/ SaveCustomerMessage(p)
       \/ FlowGetState(p)
       \/ FlowFreshChat(p)
       \/ FlowSetState(p)
       \/ SendReply(p)
       \/ ReleaseLock(p)

SpecExit == InitExit /\ [][NextExit]_vars

\* SpecEngine: a contact at any step of the dialogue sends texts that the step
\* handlers tell apart (names, menu options, identity numbers, survey answers,
\* an exit keyword); the connection is open and no agent is connected
InitEngine ==
  \E s1 \in {SetupNew, SetupStart(1), SetupBot(1, W_Ana, START, FALSE),
              SetupBot(1, <<>>, ASK_FOR_NAME, FALSE), SetupMenu(1),
              SetupBot(1, W_Ana, MAIN_MENU, TRUE),
              SetupBot(1, W_Ana, DISCLAIMER, FALSE), SetupCedula(1),
              SetupSurvey(1)} :
    InitWith(Two(s1, SetupNew), {}, TRUE)

NextEngine ==
  \/ \E p \in Procs,
        text \in {<<"h", "o", "l", "a">>, <<" ", "a", "b">>, <<"1">>, <<"2">>,
                  <<"3">>, <<"d", "e", "u", "d", "a">>,
                  <<" ", "1", "2", "3", "4", " ">>, <<"M", "a", "l", "a">>,
                  <<"s", "a", "l", "i", "r">>} :
       Deliver(p, 1, text, FALSE)
  \/ \E p \in Procs :
       \/ AcquireLockOk(p)
       \/ AcquireLockFail(p)
       \/ LoadChat(p)
       \/ SaveChat(p)
       \/ SaveCustomerMessage(p)
       \/ FlowGetState(p)
       \/ FlowFreshChat(p)
       \/ NameSave(p)
       \/ ClientLookup(p)
       \/ SurveySave(p)
       \/ SurveyReset(p)
       \/ FlowSetState(p)
       \/ SendReply(p)
       \/ EscalateSave(p)
       \/ EscalateSend(p)
       \/ EscalateSystemMessage(p)
       \/ AutoAssignSave(p)
       \/ AutoAssignEnqueue(p)
       \/ AutoAssignSystemMessage(p)
       \/ ReleaseLock(p)

SpecEngine == InitEngine /\ [][NextEngine]_vars

\* SpecWriters: the writers of one chat's status and agent: the inbound handler
\* and, called by an agent or an administrator at any time, assignChat,
\* releaseChat and unassignChat
InitWriters ==
  \E s1 \in {SetupMenu(1), SetupActive(1, 1), SetupPending(1)} :
    InitWith(Two(s1, SetupNew), {1, 2}, TRUE)

NextWriters ==
  \/ \E p \in Procs : Deliver(p, 1, <<"h", "o", "l", "a">>, FALSE)
  \/ \E p \in Procs, u \in Agents : StartAssign(p, 1, u)
  \/ \E p \in Procs : StartRelease(p, 1, FALSE)
  \/ \E p \in Procs : StartUnassign(p, 1)
  \/ \E p \in Procs :
       \/ AcquireLockOk(p)
       \/ AcquireLockFail(p)
       \/ LoadChat(p)
       \/ SaveChat(p)
       \/ SaveCustomerMessage(p)
       \/ FlowGetState(p)
       \/ FlowFreshChat(p)
       \/ FlowSetState(p)
       \/ SendReply(p)
       \/ ReleaseLock(p)
       \/ AssignLoadChat(p)
       \/ AssignFindAgent(p)
       \/ AssignSave(p)
       \/ AssignFinish(p)
       \/ ReleaseLoadChat(p)
       \/ ReleaseSave(p)
       \/ ReleaseSystemMessage(p)
       \/ UnassignLoadChat(p)
       \/ UnassignSave(p)
       \/ UnassignResetState(p)
       \/ UnassignSystemMessage(p)
       \/ UnassignSendFarewell(p)

SpecWriters == InitWriters /\ [][NextWriters]_vars

----------------------------------------------------------------------------
(* Properties *)

\* the handler of process p is inside the lease-protected section: after its
\* successful acquireLock and before its releaseLock has completed
InSection(p) == op[p] = "msg" /\ pc[p] \notin {"idle", "acquire", "done"}

\* C1: at any instant at most one handleIncomingMessage invocation is inside
\* the lease-protected section of the same contact, also when a handler runs
\* longer than the lease's time-to-live
C1_MutualExclusion ==
  \A p, q \in Procs :
    (p # q /\ InSection(p) /\ InSection(q)) => loc[p].contact # loc[q].contact

\* C2: in every persisted state a chat whose status is ACTIVE has an assigned
\* agent
C2_ActiveHasAgent ==
  \A id \in ChatIds :
    (Exists(id) /\ chats[id].status = ACTIVE) => chats[id].agent # NoAgent

\* C3: in every persisted state a chat whose status is AUTO_RESPONDER or
\* PENDING_ASSIGNMENT has no assigned agent
C3_BotOrPendingHasNoAgent ==
  \A id \in ChatIds :
    (Exists(id) /\ chats[id].status \in {AUTO_RESPONDER, PENDING_ASSIGNMENT})
      => chats[id].agent = NoAgent

\* C4: every step that changes a contact's dialogue state is a step of the
\* operation that holds that contact's lease
C4_StateWrittenUnderLease ==
  [][\A c \in Contacts :
       dialog'[c] # dialog[c] => \E p \in Procs : lock[c] = p /\ pc'[p] # pc[p]]_vars

\* C5: a handler that acquired the contact's lease ends only by the release of
\* its finally block, which leaves the lease free, on every path: completion,
\* the early returns and an exception at any await
C5_LeaseReleasedOnEveryPath ==
  [][\A p \in Procs :
       (op[p] = "msg" /\ loc[p].region # "none" /\ pc[p] # "done" /\ pc'[p] = "done")
         => (pc[p] = "release" /\ lock'[loc[p].contact] = 0)]_vars

\* a handler whose outer catch ran has ended and does not hold the lease
C5_Witness ==
  \E p \in Procs :
    /\ op[p] = "msg" /\ pc[p] = "done" /\ loc[p].region = "caught"
    /\ lock[loc[p].contact] = 0

\* C6: when acquireLock fails the handler ends at once and nothing changes: no
\* chat, no message record, no dialogue state, no queue entry, no timer, and the
\* lease of the other handler stays
C6_FailedAcquireDrops ==
  [][\A p \in Procs :
       (op[p] = "msg" /\ pc[p] = "acquire" /\ lock[loc[p].contact] # 0
        /\ pc'[p] # pc[p])
         => (pc'[p] = "done"
             /\ UNCHANGED <<chats, messages, surveys, lock, dialog, queue,
                            arTimer, agTimer>>)]_vars

\* a handler was dropped while another handler still holds the contact's lease
C6_Witness ==
  \E p, q \in Procs :
    /\ op[p] = "msg" /\ pc[p] = "done" /\ loc[p].region = "none"
    /\ q # p /\ lock[loc[p].contact] = q /\ InSection(q)

\* the awaits of the conversation engine and of what follows its answer
EnginePcs ==
  {"flow_get", "flow_fresh", "name_save", "lookup", "survey_save", "survey_reset",
   "flow_set", "send_reply", "catch_send", "esc_save", "esc_send", "esc_sysmsg"}

\* C7: a handler that found the chat ACTIVE or PENDING_ASSIGNMENT does not run
\* the engine and leaves the chat's status and agent, the dialogue state and
\* the wait queue as they are, whatever the readiness of the collaborator
C7_EngagedChatOnlyStoresMessage ==
  [][\A p \in Procs :
       (op[p] = "msg" /\ loc[p].loaded \in {ACTIVE, PENDING_ASSIGNMENT}
        /\ pc'[p] # pc[p])
         => (/\ pc'[p] \notin EnginePcs
             /\ chats'[loc[p].chat.id].status = chats[loc[p].chat.id].status
             /\ chats'[loc[p].chat.id].agent = chats[loc[p].chat.id].agent
             /\ dialog' = dialog
             /\ queue' = queue)]_vars

\* C8: the agent autoAssignChat assigns is connected, has role agent and has,
\* when the assignment is written, the fewest ACTIVE chats among the connected
\* agents
C8_AssignsLeastLoaded ==
  [][\A p \in Procs :
       (op[p] = "msg" /\ pc[p] = "as_save" /\ pc'[p] = "as_finish")
         => (/\ loc[p].target \in AvailableAgentIds
             /\ \A v \in AvailableAgentIds :
                  ActiveCount(loc[p].target) <= ActiveCount(v))]_vars

\* C9: a handler of a contact at MAIN_MENU that chose the advisor option while
\* no agent is connected has ended: the chat is PENDING_ASSIGNMENT, has no
\* agent, and its id is the most recently added entry of the wait queue
C9_NoAgentMeansQueued ==
  \A p \in Procs :
    (/\ op[p] = "msg" /\ pc[p] = "done"
     /\ loc[p].us.step = MAIN_MENU /\ loc[p].resp = ACTIVATE_CHAT_WITH_ADVISOR
     /\ AvailableAgentIds = {})
      => (/\ chats[loc[p].chat.id].status = PENDING_ASSIGNMENT
          /\ chats[loc[p].chat.id].agent = NoAgent
          /\ queue # <<>>
          /\ Head(queue) = StringOf(loc[p].chat.id))

\* s is a prefix of t
IsPrefix(s, t) == Len(s) <= Len(t) /\ SubSeq(t, 1, Len(s)) = s

\* C10: the ids getNextChatInQueue has returned are, in order, the first ids
\* addChatToWaitingQueue was given: an id added before another is returned
\* before it
C10_QueueIsFifo == IsPrefix(hist.returned, hist.added)

\* two different ids were added and both were returned
C10_Witness ==
  /\ Len(hist.returned) >= 2
  /\ hist.returned[1] # hist.returned[2]

Steps(p) == pc'[p] # pc[p]

\* C12: a manual assign is rejected with an error when the chat does not
\* exist, when the agent does not exist, or when the agent is not in the
\* presence registry, and up to the rejection it has written neither the
\* chat's status, nor its agent, nor its response timer
C12_ManualAssignRejects ==
  [][\A p \in Procs :
       /\ (op'[p] = "assign" /\ pc'[p] \in {"as_load", "as_agent"} /\ Steps(p)) =>
            UNCHANGED <<chats, agTimer>>
       /\ (op[p] = "assign" /\ Steps(p) /\
             \/ pc[p] = "as_load" /\ ~Exists(loc[p].chatId)
             \/ pc[p] = "as_agent" /\ loc[p].target \notin Users
             \/ pc[p] = "as_agent" /\ loc[p].target \notin presence) =>
            /\ pc'[p] = "done"
            /\ loc'[p].failed
            /\ UNCHANGED <<chats, agTimer>>
    ]_vars

\* a manual assign of a chat that an agent holds, with its response timer
\* running, to an agent that is not connected was rejected
C12_Witness ==
  \E p \in Procs :
    /\ op[p] = "assign" /\ pc[p] = "done" /\ loc[p].failed
    /\ Exists(loc[p].chatId)
    /\ loc[p].target \in Users \ presence
    /\ chats[loc[p].chatId].status = ACTIVE
    /\ chats[loc[p].chatId].agent \notin {NoAgent, loc[p].target}
    /\ agTimer[loc[p].chatId].state = "live"

C14_StaleTimeoutDoesNothing ==
  [][\A p \in Procs :
       (pc[p] = "rt_load" /\ Steps(p) /\
         \/ ~Exists(loc[p].chatId)
         \/ chats[loc[p].chatId].status # ACTIVE
         \/ chats[loc[p].chatId].agent # loc[p].exclude) =>
            /\ pc'[p] = "done"
            /\ UNCHANGED <<dbVars, redisVars, localVars>>
    ]_vars

\* a callback ended at its guard: the chat is ACTIVE with another agent
C14_Witness ==
  \E p \in Procs :
    /\ op[p] = "rtimer" /\ pc[p] = "done"
    /\ loc[p].avail = {} /\ loc[p].target = NoAgent
    /\ chats[loc[p].chatId].status = ACTIVE
    /\ chats[loc[p].chatId].agent \notin {NoAgent, loc[p].exclude}
    /\ messages[loc[p].chatId]["system"] = 1

\* C17: within one process at most one response timer of a chat is live,
\* after any sequence of assign, reassign, agent reply, release and unassign
C17_OneResponseTimer == \A id \in ChatIds : LiveResponseTimers(id) <= 1

\* a manual assign started a timer, it fired, the callback reassigned the chat
\* and started the timer of the next agent
C17_Witness ==
  \E p, q \in Procs :
    /\ op[p] = "assign" /\ pc[p] = "done" /\ ~loc[p].failed
    /\ op[q] = "rtimer" /\ pc[q] = "done" /\ loc[q].target # NoAgent
    /\ loc[q].exclude = loc[p].target
    /\ agTimer[1] = [state |-> "live", agent |-> loc[q].target, orphans |-> 0]

C18_NoTimeoutAfterReply ==
  [][\A p \in Procs :
       (op[p] = "rtimer" /\ Steps(p) /\ pc[p] \in {"as_save", "rl_save"}) =>
         ~\E q \in Procs : /\ op[q] \in {"agentmsg", "release"}
                            /\ pc[q] = "done" /\ ~loc[q].failed
    ]_vars

\* chat id is with a human: ACTIVE with an agent, or PENDING_ASSIGNMENT with
\* its id in the wait queue
Escalated(id) ==
  \/ chats[id].status = ACTIVE /\ chats[id].agent \in Users
  \/ /\ chats[id].status = PENDING_ASSIGNMENT
     /\ \E i \in 1..Len(queue) : queue[i] = StringOf(id)

\* C19: when the engine or the reply step raised an exception while the
\* message of an AUTO_RESPONDER chat was processed, the handler ends with the
\* chat escalated to a human, also when sending the apology failed
C19_ExceptionEscalates ==
  [][\A p \in Procs :
       (op[p] = "msg" /\ pc[p] = "release" /\ pc'[p] = "done"
         /\ loc[p].region \in {"catch", "catch_failed"}) =>
           Escalated(loc[p].chat.id)'
    ]_vars

\* the keyword a handler's message is, once trimmed and in lower case
Keyword(p) == Lower(Trim(loc[p].text))

\* C20: for every step, an input equal to an exit keyword is answered by the
\* exit rule and by no step handler; a farewell keyword stores step SURVEY
\* with termsAccepted as it was; any other exit keyword stores step MAIN_MENU
\* with termsAccepted false, except that at MAIN_MENU a show-menu keyword
\* stores nothing
C20_GlobalExitRule ==
  [][\A p \in Procs :
       (op[p] = "msg" /\ Steps(p) /\ Keyword(p) \in exitCommands) =>
         LET c == loc[p].contact
             farewell == Keyword(p) \in
               {<<"s", "a", "l", "i", "r">>, <<"c", "h", "a", "o">>,
                <<"a", "d", "i", "o", "s">>, <<"f", "i", "n">>,
                <<"t", "e", "r", "m", "i", "n", "a", "r">>}
             showMenu == Keyword(p) \in
               {<<"m", "e", "n", "u">>, <<"i", "n", "i", "c", "i", "o">>, <<"0">>}
         IN /\ pc[p] = "flow_fresh" =>
                 /\ loc'[p].resp \in {"menu", "survey_question", "back_to_menu"}
                 /\ IF dialog[c].step = MAIN_MENU /\ showMenu
                      THEN pc'[p] = "send_reply"
                      ELSE pc'[p] = "flow_set"
            /\ pc[p] = "flow_set" =>
                 IF farewell
                   THEN /\ dialog'[c].step = SURVEY
                        /\ dialog'[c].termsAccepted = dialog[c].termsAccepted
                   ELSE /\ dialog'[c].step = MAIN_MENU
                        /\ ~dialog'[c].termsAccepted
            /\ pc[p] # "flow_set" => dialog' = dialog
    ]_vars

\* a contact that had accepted the terms and was asked for its id said
\* goodbye: the step is SURVEY and the terms are still accepted
C20_Witness ==
  \E p \in Procs :
    /\ op[p] = "msg" /\ pc[p] = "done"
    /\ Keyword(p) = <<"s", "a", "l", "i", "r">> /\ loc[p].text # Keyword(p)
    /\ loc[p].resp = "survey_question"
    /\ dialog[1] = Stored([step |-> SURVEY, termsAccepted |-> TRUE])
    /\ messages[1]["reply"] = 1

\* C21: in step START a message that is no exit keyword leaves the stored
\* step at MAIN_MENU when the chat has a customer name and at ASK_FOR_NAME,
\* with the name request as reply, when it has none; the handler that created
\* the chat of a new contact therefore stores ASK_FOR_NAME
C21_StartStep ==
  [][\A p \in Procs :
       ( /\ Steps(p) /\ op[p] = "msg" /\ pc[p] = "flow_set"
         /\ dialog[loc[p].contact].step = START
         /\ Keyword(p) \notin exitCommands )
       => /\ chats[loc[p].chat.id].name # <<>>
             => dialog'[loc[p].contact].step = MAIN_MENU
          /\ chats[loc[p].chat.id].name = <<>>
             => /\ dialog'[loc[p].contact].step = ASK_FOR_NAME
                /\ loc[p].resp = "ask_name"
          /\ loc[p].loaded = "none"
             => dialog'[loc[p].contact].step = ASK_FOR_NAME]_vars

C21_Witness ==
  \E p \in Procs :
    /\ op[p] = "msg" /\ pc[p] = "send_reply" /\ loc[p].loaded = "none"
    /\ Keyword(p) \notin exitCommands
    /\ loc[p].resp = "ask_name"
    /\ dialog[loc[p].contact].present
    /\ dialog[loc[p].contact].step = ASK_FOR_NAME
    /\ chats[loc[p].chat.id].name = <<>>

C23_MainMenuStep ==
  [][\A p \in Procs :
       ( /\ Steps(p) /\ op[p] = "msg" /\ pc[p] = "flow_set"
         /\ dialog[loc[p].contact].step = MAIN_MENU
         /\ Keyword(p) \notin exitCommands )
       => LET old == dialog[loc[p].contact]
              new == dialog'[loc[p].contact]
              consult ==
                \/ Trim(loc[p].text) = <<"1">>
                \/ Includes(Keyword(p), <<"c", "o", "n", "s", "u", "l", "t", "a", "r">>)
                \/ Includes(Keyword(p), <<"d", "e", "u", "d", "a">>)
              advisor ==
                \/ Trim(loc[p].text) = <<"2">>
                \/ Includes(Keyword(p), <<"a", "s", "e", "s", "o", "r">>)
                \/ Includes(Keyword(p), <<"a", "g", "e", "n", "t", "e">>)
          IN /\ consult
                => /\ new.step = IF old.termsAccepted THEN PEDIR_CEDULA ELSE DISCLAIMER
                   /\ new.termsAccepted = old.termsAccepted
             /\ (~consult /\ ~advisor) => new = old]_vars

\* at the main menu with the terms accepted, one text was not understood and
\* a later "deuda" was answered with the request for the identity number
C23_Witness ==
  \E p, q \in Procs :
    /\ pc[q] = "done" /\ loc[q].resp = "menu_unrecognized"
    /\ pc[p] = "send_reply" /\ loc[p].resp = "ask_cedula"
    /\ loc[p].text = <<"d", "e", "u", "d", "a">>
    /\ dialog[loc[p].contact].step = PEDIR_CEDULA
    /\ dialog[loc[p].contact].termsAccepted

\* C24: in step PEDIR_CEDULA a text that is no exit keyword and whose trimmed
\* length is below 5 is rejected: findClientById was not called and the stored
\* state stays as it was; every other text that is no exit keyword has caused
\* exactly one call of findClientById when the engine returns, and the stored
\* step becomes MAIN_MENU whatever the lookup answered
C24_CedulaStep ==
  [][\A p \in Procs :
       ( /\ Steps(p) /\ op[p] = "msg" /\ pc[p] = "flow_set"
         /\ dialog[loc[p].contact].step = PEDIR_CEDULA
         /\ Keyword(p) \notin exitCommands )
       => IF Len(Trim(loc[p].text)) < 5
            THEN /\ loc[p].lookups = 0
                 /\ dialog'[loc[p].contact] = dialog[loc[p].contact]
                 /\ loc[p].resp = "cedula_short"
            ELSE /\ loc[p].lookups = 1
                 /\ dialog'[loc[p].contact].step = MAIN_MENU
                 /\ loc[p].resp \in {"debt_summary", "no_record"}]_vars

\* a short number was rejected, then a lookup that found no client led back
\* to the main menu
C24_Witness ==
  \E p, q \in Procs :
    /\ pc[q] = "done" /\ loc[q].resp = "cedula_short" /\ loc[q].lookups = 0
    /\ Len(loc[q].text) >= 5
    /\ pc[p] = "send_reply" /\ loc[p].resp = "no_record" /\ loc[p].lookups = 1
    /\ dialog[loc[p].contact].step = MAIN_MENU

\* C25: in step SURVEY every text that is no exit keyword ends the session:
\* the handler resets the stored DialogueState to the default (START,
\* termsAccepted false), and when the text is "1", "2", "3" or the word of a
\* rating, a survey record with that rating exists for the chat by then
C25_SurveyEndsSession ==
  [][\A p \in Procs :
       ( /\ Steps(p) /\ op[p] = "msg" /\ loc[p].us.step = SURVEY
         /\ Keyword(p) \notin exitCommands )
       => LET rating ==
                CASE Keyword(p) \in {<<"1">>, <<"m", "a", "l", "a">>} -> "MALA"
                  [] Keyword(p) \in {<<"2">>, <<"r", "e", "g", "u", "l", "a", "r">>}
                       -> "REGULAR"
                  [] Keyword(p) \in {<<"3">>,
                                     <<"e", "x", "c", "e", "l", "e", "n", "t", "e">>}
                       -> "EXCELENTE"
                  [] OTHER -> "none"
              Stored_(S) == \E s \in S : s.chat = loc[p].chat.id /\ s.rating = rating
          IN /\ pc[p] = "flow_fresh"
                => /\ pc'[p] \in {"survey_save", "survey_reset"}
                   /\ rating # "none" => pc'[p] = "survey_save"
             /\ pc[p] = "survey_save"
                => /\ pc'[p] = "survey_reset"
                   /\ rating # "none" => Stored_(surveys')
             /\ pc[p] = "survey_reset"
                => /\ dialog'[loc[p].contact] = Stored(DefaultState)
                   /\ rating # "none" => Stored_(surveys')]_vars

\* the answer "Mala" was stored as the rating MALA and the dialogue is back
\* at its default
C25_Witness ==
  \E p \in Procs :
    /\ op[p] = "msg" /\ pc[p] = "send_reply" /\ loc[p].us.step = SURVEY
    /\ loc[p].text = <<"M", "a", "l", "a">>
    /\ \E s \in surveys : s.chat = loc[p].chat.id /\ s.rating = "MALA"
    /\ dialog[loc[p].contact] = Stored(DefaultState)

\* C26: in step SURVEY a text that matches none of the three ratings (and is
\* no exit keyword) is stored as a free-text comment: when the handler resets
\* the dialogue, a survey record of the chat holds that text as its comment
C26_CommentStored ==
  [][\A p \in Procs :
       ( /\ Steps(p) /\ op[p] = "msg" /\ pc[p] = "survey_reset"
         /\ Keyword(p) \notin exitCommands
         /\ SurveyRatingOf(loc[p].text) = "none" )
       => \E s \in surveys' :
            s.chat = loc[p].chat.id /\ s.comment = Trim(loc[p].text)]_vars

\* C27: the writes to one chat's status and agent are serialized: a save of
\* the inbound handler that meets a row whose status or agent differs from
\* the copy the handler read (an assign, release or unassign committed since)
\* leaves the committed status and agent in place
C27_NoStaleSave ==
  [][\A p \in Procs :
       ( /\ Steps(p) /\ op[p] = "msg" /\ pc[p] \in {"save1", "savemsg"}
         /\ loc[p].chat.id # NoChat
         /\ \/ chats[loc[p].chat.id].status # loc[p].chat.status
            \/ chats[loc[p].chat.id].agent # loc[p].chat.agent )
       => /\ chats'[loc[p].chat.id].status = chats[loc[p].chat.id].status
          /\ chats'[loc[p].chat.id].agent = chats[loc[p].chat.id].agent]_vars

\* C28: no inactivity timer is live for a chat whose status is ACTIVE or
\* PENDING_ASSIGNMENT (the timer is cancelled when the chat leaves
\* AUTO_RESPONDER)
C28_NoInactivityTimerOutsideBot ==
  \A id \in ChatIds :
    (Exists(id) /\ chats[id].status \in {ACTIVE, PENDING_ASSIGNMENT})
      => LiveInactivityTimers(id) = 0

\* C29: a handler that finds the readiness flag false after it stored the
\* customer's message never invokes the Conversation Engine: from then on none
\* of its steps changes the contact's DialogueState, records a bot reply
\* (reply, handoff message or apology) or starts an inactivity timer
C29_NotReadySkipsEngine ==
  [][\A p \in Procs :
       ( /\ Steps(p) /\ op[p] = "msg" /\ loc[p].region = "try"
         /\ pc[p] \notin {"load", "save1"}
         /\ pc[p] = "savemsg" => ~isReady )
       => /\ dialog' = dialog
          /\ arTimer' = arTimer
          /\ pc'[p] \notin EnginePcs
          /\ \A id \in ChatIds, k \in {"reply", "handoff", "apology"} :
               messages'[id][k] = messages[id][k]]_vars

\* the first message of a new contact arrived while the connection was down:
\* the handler is at its end, the chat waits for an agent, and the contact has
\* neither a DialogueState nor an inactivity timer nor a bot reply
C29_Witness ==
  \E p \in Procs :
    /\ op[p] = "msg" /\ pc[p] = "release" /\ loc[p].region = "try"
    /\ loc[p].loaded = "none"
    /\ chats[loc[p].chat.id].status = PENDING_ASSIGNMENT
    /\ messages[loc[p].chat.id]["system"] > 0
    /\ ~dialog[loc[p].contact].present
    /\ LiveInactivityTimers(loc[p].chat.id) = 0
    /\ \A k \in {"reply", "handoff", "apology"} : messages[loc[p].chat.id][k] = 0

\* C30: in every reachable state at most one chat record exists per contact:
\* the first inbound message of a new contact creates one chat, and no later
\* or concurrent inbound message of that contact creates a second one
C30_OneChatPerContact ==
  \A c \in Contacts : Cardinality(RowsOf(c)) <= 1

\* C31: when onModuleDestroy has run, no inactivity timer and no response timer
\* of the process is live any more, whether or not a map still held its handle
C31_ShutdownCancelsAllTimers ==
  [][\A p \in Procs :
       (op'[p] = "destroy" /\ op[p] # "destroy")
         => \A id \in ChatIds :
              /\ LiveInactivityTimers(id)' = 0
              /\ LiveResponseTimers(id)' = 0]_vars

\* C32: whenever autoAssignChat returns without an exception, the chat is
\* ACTIVE with an assigned agent or PENDING_ASSIGNMENT with its id in the wait
\* queue, also when the least-loaded query returns no agent
C32_AutoAssignPostcondition ==
  [][\A p \in Procs :
       (/\ op[p] = "msg"
        /\ pc[p] \in {"aa_find", "aa_sysmsg", "as_finish"}
        /\ pc'[p] = "release"
        /\ loc'[p].region = loc[p].region)
         => \/ /\ chats'[loc[p].chat.id].status = ACTIVE
               /\ chats'[loc[p].chat.id].agent # NoAgent
            \/ /\ chats'[loc[p].chat.id].status = PENDING_ASSIGNMENT
               /\ \E i \in 1..Len(queue') :
                    queue'[i] = StringOf(loc[p].chat.id)]_vars

\* C33: the releaseLock of a handler removes only the lease this handler
\* acquired: a lease that another handler acquired for the same contact after
\* the first handler's lease expired is still there after the release
C33_ReleaseOnlyOwnLease ==
  [][\A p \in Procs :
       (op[p] = "msg" /\ pc[p] = "release" /\ pc'[p] = "done"
        /\ lock[loc[p].contact] \notin {0, p})
         => lock'[loc[p].contact] = lock[loc[p].contact]]_vars

\* C34: a chat taken from the wait queue on agent connect is assigned to the
\* connecting agent only if it is still PENDING_ASSIGNMENT: a queued chat that
\* was meanwhile assigned by hand or released is not re-assigned
C34_DequeueOnlyPending ==
  [][\A p \in Procs :
       (op[p] = "connect" /\ pc[p] = "as_save" /\ pc'[p] # pc[p])
         => \/ chats[loc[p].chatId].status = PENDING_ASSIGNMENT
            \/ chats'[loc[p].chatId] = chats[loc[p].chatId]]_vars

\* C35: a chat id occurs at most once in the wait queue in every reachable
\* state, also when several inbound messages of a chat that is already
\* PENDING_ASSIGNMENT arrive while the messaging collaborator is not ready and
\* no agent is connected
C35_QueuedOnce ==
  \A i, j \in 1..Len(queue) : queue[i] = queue[j] => i = j

\* C36: sendAgentMessage called by a user who is not the chat's assigned agent,
\* or for a chat that does not exist, is rejected with an error and leaves the
\* state unchanged: no message is persisted or sent and the chat's live
\* response timer keeps running
C36_RejectedAgentMessage ==
  [][\A p \in Procs, id \in ChatIds, u \in Users :
       (/\ op'[p] = "agentmsg"
        /\ Steps(p)
        /\ pc[p] \in {"idle", "am_load"}
        /\ loc'[p].chatId = id /\ loc'[p].target = u
        /\ (~Exists(id) \/ chats[id].agent # u))
         => /\ pc[p] = "am_load" => (pc'[p] = "done" /\ loc'[p].failed)
            /\ messages' = messages
            /\ chats' = chats
            /\ LiveResponseTimers(id)' = LiveResponseTimers(id)]_vars

C38_AutoAssignsPresentAgent ==
  [][\A p \in Procs :
       (pc[p] = "as_save" /\ Steps(p) /\ loc[p].isAuto
        /\ chats'[loc[p].chatId].agent = loc[p].target)
         => loc[p].target \in presence']_vars

\* C39: if a chat is in the wait queue and at least one user of role agent
\* stays connected, the chat is eventually assigned to an agent, without a
\* further agent-connect event
C39_QueuedChatIsAssigned ==
  \A id \in Contacts :
    ((\E i \in 1..Len(queue) : queue[i] = StringOf(id)) /\ AvailableAgentIds # {})
      ~> \/ chats[id].status = ACTIVE /\ chats[id].agent # NoAgent
         \/ AvailableAgentIds = {}

\* the parts of C40 that do not depend on what a logout leaves behind: the
\* counter stays within 0..MAX_RECONNECT_ATTEMPTS, at most one reconnect timer
\* is pending, a successful connection resets the counter, and at the limit
\* no reconnect is scheduled
ReconnectWithinLimit ==
  /\ wa'.reconnectAttempts \in 0..MAX_RECONNECT_ATTEMPTS
  /\ wa'.pending \in {0, 1}
  /\ (isReady' /\ ~isReady) => wa'.reconnectAttempts = 0
  /\ (wa.reconnectAttempts = MAX_RECONNECT_ATTEMPTS
      /\ wa'.reconnectAttempts = MAX_RECONNECT_ATTEMPTS)
       => /\ wa'.pending <= wa.pending
          /\ wa'.reconnectTimer = "live" => wa.reconnectTimer = "live"

\* C40: in every reachable state of WhatsappService 0 <= reconnectAttempts <=
\* MAX_RECONNECT_ATTEMPTS and at most one reconnect timer is pending; a
\* successful connection or a logout resets reconnectAttempts to 0, and once
\* it has reached the limit no further reconnect is scheduled until such a
\* reset
C40_ReconnectBookkeeping ==
  [][/\ ReconnectWithinLimit
     /\ wa'.removing < wa.removing => wa'.reconnectAttempts = 0]_vars

\* C40 as the code has it: a logout that removed the credentials resets the
\* counter and schedules the first reconnect in the same synchronous block, so
\* it leaves reconnectAttempts = 1 with one timer pending; a logout whose
\* fs.rm fails changes neither the counter nor the timer
C40_LogoutRestartsCount ==
  [][/\ ReconnectWithinLimit
     /\ wa'.removing < wa.removing
          => \/ /\ wa'.reconnectAttempts = 1
                /\ wa'.reconnectTimer = "live" /\ wa'.pending = 1
             \/ /\ wa'.reconnectAttempts = wa.reconnectAttempts
                /\ wa'.reconnectTimer = wa.reconnectTimer
                /\ wa'.pending = wa.pending]_vars

\* the tenth reconnect attempt failed and nothing further is scheduled, while
\* a logout is removing the credentials
C40_Witness ==
  /\ wa.reconnectAttempts = MAX_RECONNECT_ATTEMPTS
  /\ wa.reconnectTimer = "fired" /\ wa.pending = 0 /\ wa.connecting = 0
  /\ wa.removing = 1

====
